---- MODULE Spec2Model ----
(***************************************************************************)
(* Pulse: the timeline aggregator (loadBlocks), the facet loader and the   *)
(* interactive session state machine of internal/ui/app.go.                *)
(*                                                                         *)
(* Strings are sequences of one-character strings (<<"a", ",", "b">> is    *)
(* "a,b"), so that trimming, splitting, joining and substring search are   *)
(* computed and not assumed.  SQL NULL is the value NULL.  Timestamps are  *)
(* whole seconds counted from 1970-01-01T00:00:00Z; the session runs in    *)
(* the UTC location and a day lasts DayLen seconds.                        *)
(***************************************************************************)
EXTENDS Integers, Sequences, FiniteSets, TLC

\* ---------------------------------------------------------------- bounds
\* seconds in one day of the scaled calendar
DayLen == 2
\* the wall clock stops advancing here
MaxClock == 3
\* rows the entries table may hold
MaxEntries == 3
\* the pomodoroTickMsg timers running at once, and the work sessions completed
MaxTicks == 2
MaxWorkSessions == 4
\* pulse processes running at once
MaxProcs == 2
\* the hours of a day of the reminder's clock, the last day its now falls on, the
\* instant the zone's clocks change (hour 1 of day 3, a Sunday), and the hours
\* after now an occurrence is looked for in
HoursPerDay == 4
MaxNowDay == 3
ShiftAt == 13
Horizon == 48
\* commands (reload goroutines) in flight at once
MaxInflight == 2
\* characters the search box or an editor buffer may hold
MaxText == 2
\* terminal heights a resize may report: 0..MaxHeight
MaxHeight == 1

\* ------------------------------------------------------------- strings
NULL == <<"NULL">>

Max2(a, b) == IF a > b THEN a ELSE b
Min2(a, b) == IF a < b THEN a ELSE b

\* strings.TrimSpace
RECURSIVE TrimLeft(_)
TrimLeft(s) == IF s # <<>> /\ Head(s) = " " THEN TrimLeft(Tail(s)) ELSE s
RECURSIVE TrimRight(_)
TrimRight(s) ==
    IF s # <<>> /\ s[Len(s)] = " " THEN TrimRight(SubSeq(s, 1, Len(s) - 1)) ELSE s
TrimSpace(s) == TrimRight(TrimLeft(s))

\* SQLite instr(X, Y) > 0; instr of a NULL is NULL, which a WHERE clause rejects
Instr(hay, needle) ==
    /\ hay # NULL
    /\ \E i \in 1..(Len(hay) - Len(needle) + 1) :
          SubSeq(hay, i, i + Len(needle) - 1) = needle

\* strings.Split(csv, ",")
RECURSIVE SplitComma(_)
SplitComma(s) ==
    IF \A i \in 1..Len(s) : s[i] # ","
    THEN <<s>>
    ELSE LET k == CHOOSE i \in 1..Len(s) : s[i] = "," /\ \A j \in 1..(i - 1) : s[j] # ","
         IN  <<SubSeq(s, 1, k - 1)>> \o SplitComma(SubSeq(s, k + 1, Len(s)))

RECURSIVE DropEmpty(_)
DropEmpty(parts) ==
    IF parts = <<>> THEN <<>>
    ELSE IF TrimSpace(Head(parts)) = <<>> THEN DropEmpty(Tail(parts))
    ELSE <<TrimSpace(Head(parts))>> \o DropEmpty(Tail(parts))

splitTags(csv) == IF TrimSpace(csv) = <<>> THEN <<>> ELSE DropEmpty(SplitComma(TrimSpace(csv)))

\* strings.Join(parts, sep)
RECURSIVE Join(_, _)
Join(parts, sep) ==
    IF parts = <<>> THEN <<>>
    ELSE IF Len(parts) = 1 THEN Head(parts)
    ELSE Head(parts) \o sep \o Join(Tail(parts), sep)

\* strings.ToLower on the category labels in use
ToLower(c) == IF c = "Task" THEN "task" ELSE IF c = "Note" THEN "note" ELSE c

\* COALESCE(v, d)
Coalesce(v, d) == IF v = NULL THEN d ELSE v

\* nullIfEmpty
nullIfEmpty(s) == IF TrimSpace(s) = <<>> THEN NULL ELSE s

\* ---------------------------------------------------------------- time
\* 1970-01-01 was a Thursday
EpochWeekday == 4
\* days of December 1969, the month before the clock's month
DaysInPrevMonth == 31

DayOf(t) == t \div DayLen
StartOfDay(t) == DayOf(t) * DayLen
Weekday(t) == (DayOf(t) + EpochWeekday) % 7
StartOfWeek(t) == (DayOf(t) - Weekday(t)) * DayLen

Scopes == {"today", "since", "all", "thisWeek", "thisMonth", "yesterday", "lastWeek", "lastMonth"}

\* the start of the window of a scope; the clock stays inside January 1970, so
\* the month starts at second 0 and the month before at -DaysInPrevMonth days.
\* sinceValue is <<>> for the zero time and <<t>> for the instant t
scopeFrom(sc, now, sinceValue) ==
    CASE sc = "all" -> 0
      [] sc = "today" -> StartOfDay(now)
      [] sc = "thisWeek" -> StartOfWeek(now)
      [] sc = "thisMonth" -> 0
      [] sc = "yesterday" -> StartOfDay(now) - DayLen
      [] sc = "lastWeek" -> StartOfWeek(now) - 7 * DayLen
      [] sc = "lastMonth" -> 0 - DaysInPrevMonth * DayLen
      [] sc = "since" -> IF sinceValue # <<>> THEN sinceValue[1] ELSE now
      [] OTHER -> now

\* ts >= ? compares two texts.  Both start with the same fixed-width UTC date
\* and time down to the second; the store's default continues with "." and a
\* fraction ("...:05.000Z") and the bound, written with time.RFC3339, continues
\* with "Z" ("...:05Z").  A text is kept here as <<second, byte after it>>
DotByte == 46
ZByte == 90
storedTs(t) == <<t, DotByte>>
boundTs(t) == <<t, ZByte>>
textAtLeast(a, b) == a[1] > b[1] \/ (a[1] = b[1] /\ a[2] >= b[2])
tsAtLeast(ts, from) == textAtLeast(storedTs(ts), boundTs(from))

\* --------------------------------------------------------------- store
\* A row of the entries table: thread_id and parent_id are 0 for NULL.
\* The table is a function from the ids present to their rows.

VARIABLES
    entries,        \* the entries table
    clock           \* time.Now(), in seconds

Ids(ents) == DOMAIN ents

\* the rowid SQLite gives a new row of an INTEGER PRIMARY KEY table
newId(ents) ==
    IF Ids(ents) = {} THEN 1 ELSE (CHOOSE i \in Ids(ents) : \A j \in Ids(ents) : j <= i) + 1

insertRow(ents, row) ==
    [i \in Ids(ents) \cup {newId(ents)} |-> IF i \in Ids(ents) THEN ents[i] ELSE row]

\* a DELETE that removes no row
deleteRowNone(ents, id) == ents

deleteRow(ents, id) == [i \in Ids(ents) \ {id} |-> ents[i]]

\* DELETE FROM entries WHERE id = ?; with the foreign keys of the schema the
\* rows that pointed at the deleted one have the pointer set to NULL
deleteEntry(ents, id, fk) ==
    LET rest == deleteRow(ents, id)
    IN  IF ~fk THEN rest
        ELSE [i \in DOMAIN rest |->
                [rest[i] EXCEPT !.thread_id = IF @ = id THEN 0 ELSE @,
                                !.parent_id = IF @ = id THEN 0 ELSE @]]

\* a thread id that is the parent's own id whatever thread the parent is in
RootThreadIDSelf(ents, id) == id

\* db.RootThreadID
RootThreadID(ents, id) == IF ents[id].thread_id > 0 THEN ents[id].thread_id ELSE id

\* a root query that groups by id alone
rootOfOwnId(ents, id) == id

\* COALESCE(thread_id, id) AS root
rootOf(ents, id) == IF ents[id].thread_id # 0 THEN ents[id].thread_id ELSE id

\* the elements of S in ascending order of (k1[x], k2[x])
RECURSIVE SortBy(_, _, _)
SortBy(S, k1, k2) ==
    IF S = {} THEN <<>>
    ELSE LET m == CHOOSE x \in S :
                    \A y \in S : k1[x] < k1[y] \/ (k1[x] = k1[y] /\ k2[x] <= k2[y])
         IN  <<m>> \o SortBy(S \ {m}, k1, k2)

MaxOf(S) == CHOOSE x \in S : \A y \in S : y <= x

\* ---------------------------------------------------- timeline aggregator
\* the WHERE clause loadBlocks builds from the scope and the filters
matchesFilter(row, from, textFilter, proj, cat, tagSet, anyTags) ==
    /\ tsAtLeast(row.ts, from)
    /\ TrimSpace(textFilter) # <<>> =>
          \/ Instr(row.text, textFilter)
          \/ Instr(row.project, textFilter)
          \/ Instr(row.tags, textFilter)
    /\ TrimSpace(proj) # <<>> => row.project = proj
    /\ cat # "" => ToLower(row.category) = ToLower(cat)
    /\ tagSet # {} =>
          IF anyTags THEN \E t \in tagSet : Instr(row.tags, t)
                     ELSE \A t \in tagSet : Instr(row.tags, t)

\* the entry of a block, as loadBlocks scans it from a row
scanEntry(ents, id) ==
    [id |-> id, when |-> ents[id].ts, cat |-> ToLower(ents[id].category),
     project |-> Coalesce(ents[id].project, <<>>),
     tags |-> splitTags(Coalesce(ents[id].tags, <<>>)),
     text |-> TrimSpace(ents[id].text)]

\* the thread query without its "OR thread_id = ?": the root row alone
threadIdsRootOnly(ents, root) ==
    SortBy({i \in Ids(ents) : i = root},
           [i \in Ids(ents) |-> ents[i].ts], [i \in Ids(ents) |-> i])

\* SELECT ... WHERE id = root OR thread_id = root ORDER BY ts ASC, id ASC
threadIds(ents, root) ==
    SortBy({i \in Ids(ents) : i = root \/ ents[i].thread_id = root},
           [i \in Ids(ents) |-> ents[i].ts], [i \in Ids(ents) |-> i])

\* rootCat: the lowered category of the first scanned row that has one
rootCatOf(items) ==
    IF \A k \in 1..Len(items) : items[k].cat = "" THEN ""
    ELSE items[CHOOSE k \in 1..Len(items) :
                   items[k].cat # "" /\ \A j \in 1..(k - 1) : items[j].cat = ""].cat

\* loadBlocks: roots of the matching rows with MAX(ts) of the matching rows of
\* each, latest first (equal latest: ascending root, the order of the GROUP BY),
\* then every row of each root's thread; roots without rows are skipped and the
\* stable sort by latest keeps the order of the query
loadBlocks(ents, now, sc, textFilter, proj, cat, tagSet, anyTags, sinceValue) ==
    LET from == scopeFrom(sc, now, sinceValue)
        hit == {i \in Ids(ents) :
                   matchesFilter(ents[i], from, textFilter, proj, cat, tagSet, anyTags)}
        roots == {rootOf(ents, i) : i \in hit}
        latest == [r \in roots |-> MaxOf({ents[i].ts : i \in {j \in hit : rootOf(ents, j) = r}})]
        order == SortBy(roots, [r \in roots |-> 0 - latest[r]], [r \in roots |-> r])
        blockOf(r) ==
            LET ids == threadIds(ents, r)
                items == [k \in 1..Len(ids) |-> scanEntry(ents, ids[k])]
            IN  [rootID |-> r, rootCat |-> rootCatOf(items), latest |-> latest[r],
                 entries |-> items]
        all == [k \in 1..Len(order) |-> blockOf(order[k])]
    IN  SelectSeq(all, LAMBDA b : b.entries # <<>>)

\* ------------------------------------------------------- session state
\* The fields of Model that the handlers below read or write.  A list of the
\* Go code is a sequence here, so list index i of the code is i + 1 here; the
\* cursor and the scroll offsets keep the code's 0-based values.
VARIABLES
    schemaFK,               \* whether thread_id and parent_id carry ON DELETE SET NULL
    keyboard,               \* the keys the user of this session presses
    mode, focus, showSidebar, showThread,
    scope, sinceValue, sinceInput,
    filterText, filterProj, filterCat, filterTags, anyTags,
    blocks, cursorBlock, cursorEntry, threadBlock,
    viewMode, timelineScrollOffset, cardsScrollOffset, tableScrollOffset, kanbanScrollOffset, height,
    projects, categories, tags,
    activePicker, pickerCursor, sidebarSection, sidebarCursor,
    projectSummaryData, analyticsCursor,
    editor, editProject, editTags, inputFocus, editField, editTargetID, replyParentID,
    status,
    pomodoroActive, pomodoroTimeLeft, pomodoroSession,
    pomodoroWorkSessions, pomodoroTotalTime, pomodoroSessionsCount,
    pomodoroTicks,          \* the pomodoroTickMsg timers that are running
    cli,                    \* the pulse start and pulse stop processes under way
    reminder,               \* the configuration and the clock NextAt is given, and its result
    listing,                \* the flags pulse list is given, and the rows it prints
    focusMode,              \* Model.focusMode
    calendarPreviewMode,    \* Model.calendarPreviewMode
    quitting,               \* a handler has returned tea.Quit
    pending,                \* the commands in flight, oldest first
    crashed                 \* an index out of range has ended the program

storeVars == <<entries, clock, schemaFK, keyboard>>
layoutVars == <<mode, focus, showSidebar, showThread>>
filterVars == <<scope, sinceValue, sinceInput, filterText, filterProj, filterCat, filterTags, anyTags>>
timelineVars == <<blocks, cursorBlock, cursorEntry, threadBlock>>
scrollVars == <<viewMode, timelineScrollOffset, cardsScrollOffset, tableScrollOffset,
               kanbanScrollOffset, height>>
facetVars == <<projects, categories, tags>>
pickVars == <<activePicker, pickerCursor, sidebarSection, sidebarCursor, projectSummaryData,
              analyticsCursor>>
editVars ==
    <<editor, editProject, editTags, inputFocus, editField, editTargetID, replyParentID>>
pomodoroVars ==
    <<pomodoroActive, pomodoroTimeLeft, pomodoroSession, pomodoroWorkSessions,
      pomodoroTotalTime, pomodoroSessionsCount, pomodoroTicks>>
toolVars == <<cli, reminder, listing>>
modalVars == <<focusMode, calendarPreviewMode, quitting>>
vars == <<storeVars, layoutVars, filterVars, timelineVars, scrollVars, facetVars, pickVars,
          editVars, pomodoroVars, toolVars, modalVars, status, pending, crashed>>

\* a pulse process that runs no command
idleProc == [pc |-> "idle", id |-> 0, tags |-> <<>>]
\* hour, min := 17, 0 on the scale of HoursPerDay
DefaultHour == 3
\* no reminder asked for, no list asked for
noReminder == <<>>
noListing == <<>>

\* block{}: the zero value of a block
emptyBlock == [rootID |-> 0, rootCat |-> "", latest |-> 0, entries |-> <<>>]

\* ------------------------------------------------------ commands in flight
\* loadTimelineCmd: the closure keeps a copy of the model; the copy's filterTags
\* is the same map as the session's until the session makes a new one (shares)
timelineRequest ==
    [kind |-> "blocks", phase |-> "run", sc |-> scope, since |-> sinceValue,
     text |-> filterText, proj |-> filterProj, cat |-> filterCat, tagSet |-> filterTags,
     any |-> anyTags, shares |-> TRUE, err |-> FALSE, res |-> <<>>, stale |-> FALSE]

\* loadFacetsCmd
facetsRequest ==
    [kind |-> "facets", phase |-> "run", sc |-> "all", since |-> <<>>,
     text |-> <<>>, proj |-> <<>>, cat |-> "", tagSet |-> {},
     any |-> FALSE, shares |-> FALSE, err |-> FALSE, res |-> <<>>, stale |-> FALSE]

\* the commands a handler returns join the ones in flight
issue(cmds) == pending' = pending \o cmds
canIssue(n) == Len(pending) + n <= MaxInflight

\* a write through the shared filterTags map is seen by the closures not yet run
shareTags(reqs, newTags) ==
    [k \in 1..Len(reqs) |->
        IF reqs[k].kind = "blocks" /\ reqs[k].phase = "run" /\ reqs[k].shares
        THEN [reqs[k] EXCEPT !.tagSet = newTags] ELSE reqs[k]]

\* m.filterTags = make(map...): the closures keep the old map
unshareTags(reqs) == [k \in 1..Len(reqs) |-> [reqs[k] EXCEPT !.shares = FALSE]]

RemoveAt(seq, i) == SubSeq(seq, 1, i - 1) \o SubSeq(seq, i + 1, Len(seq))

\* ---------------------------------------------------------- facet loader
\* the characters of the labels in use, in byte order
Alphabet == <<" ", ",", "a", "b", "p", "q", "x", "y">>
CharRank(c) == CHOOSE k \in 1..Len(Alphabet) : Alphabet[k] = c

\* a number that orders strings of up to four characters as their bytes do
RECURSIVE StrKeyFrom(_, _)
StrKeyFrom(s, width) ==
    IF width = 0 THEN 0
    ELSE (IF s = <<>> THEN 0 ELSE CharRank(Head(s))) * ((Len(Alphabet) + 1) ^ (width - 1))
         + StrKeyFrom(IF s = <<>> THEN <<>> ELSE Tail(s), width - 1)
StrKey(s) == StrKeyFrom(s, 4)

CatRank(c) == IF c = "" THEN 0 ELSE IF c = "note" THEN 1 ELSE 2

\* the set of the elements of a sequence
Range(seq) == {seq[k] : k \in 1..Len(seq)}

\* how many times x occurs in seq
RECURSIVE CountIn(_, _)
CountIn(seq, x) ==
    IF seq = <<>> THEN 0 ELSE (IF Head(seq) = x THEN 1 ELSE 0) + CountIn(Tail(seq), x)

RECURSIVE SumOver(_, _)
SumOver(S, f) ==
    IF S = {} THEN 0 ELSE LET x == CHOOSE y \in S : TRUE IN f[x] + SumOver(S \ {x}, f)

\* loadFacets: projects by COALESCE(project, '') without the blank ones, lowered
\* categories, and the tags of the split CSVs, each with its count, most used first
loadFacets(ents) ==
    LET projOf(i) == Coalesce(ents[i].project, <<>>)
        pnames == {projOf(i) : i \in Ids(ents)}
        pcount == [n \in pnames |-> Cardinality({i \in Ids(ents) : projOf(i) = n})]
        porder == SortBy(pnames, [n \in pnames |-> 0 - pcount[n]], [n \in pnames |-> StrKey(n)])
        pitems == [k \in 1..Len(porder) |-> [name |-> porder[k], count |-> pcount[porder[k]]]]
        cnames == {ToLower(ents[i].category) : i \in Ids(ents)}
        ccount == [n \in cnames |-> Cardinality({i \in Ids(ents) : ToLower(ents[i].category) = n})]
        corder == SortBy(cnames, [n \in cnames |-> 0 - ccount[n]], [n \in cnames |-> CatRank(n)])
        tagged == {i \in Ids(ents) : ents[i].tags # NULL /\ ents[i].tags # <<>>}
        tagsOf == [i \in tagged |-> splitTags(ents[i].tags)]
        tnames == UNION {Range(tagsOf[i]) : i \in tagged}
        tcount == [n \in tnames |-> SumOver(tagged, [i \in tagged |-> CountIn(tagsOf[i], n)])]
        torder == SortBy(tnames, [n \in tnames |-> 0 - tcount[n]], [n \in tnames |-> StrKey(n)])
    IN  [projects |-> SelectSeq(pitems, LAMBDA it : TrimSpace(it.name) # <<>>),
         cats |-> [k \in 1..Len(corder) |-> [name |-> corder[k], count |-> ccount[corder[k]]]],
         tags |-> [k \in 1..Len(torder) |-> [name |-> torder[k], count |-> tcount[torder[k]]]]]

\* loadProjectSummaryCmd
projectSummaryRequest == [facetsRequest EXCEPT !.kind = "projectSummary"]

\* the sequences that hold each element of S once
Perms(S) ==
    {q \in [1..Cardinality(S) -> S] : \A a, b \in 1..Cardinality(S) : q[a] = q[b] => a = b}

\* db.LoadProjectSummary: one summary for each COALESCE(project, 'No Project'),
\* gathered in a map, so in any order
NoProject == <<"No Project">>
LoadProjectSummary(ents) == Perms({Coalesce(ents[i].project, NoProject) : i \in Ids(ents)})

\* the blocks of a reload in whatever order the rows come
cmdResultsAnyOrder(r) ==
    IF r.kind = "blocks"
    THEN Perms(Range(loadBlocks(entries, clock, r.sc, r.text, r.proj, r.cat, r.tagSet, r.any,
                                r.since)))
    ELSE IF r.kind = "facets" THEN {<<loadFacets(entries)>>}
    ELSE LoadProjectSummary(entries)

\* what the closure of a command may return when its query succeeds
cmdResults(r) ==
    IF r.kind = "blocks"
    THEN {loadBlocks(entries, clock, r.sc, r.text, r.proj, r.cat, r.tagSet, r.any, r.since)}
    ELSE IF r.kind = "facets" THEN {<<loadFacets(entries)>>}
    ELSE LoadProjectSummary(entries)

\* ------------------------------------------------------ running a command
\* The goroutine of a command runs its closure at some moment after the handler
\* returned it: it reads the store then, and the query may fail.
runCmd(i) ==
    /\ ~crashed
    /\ i \in 1..Len(pending)
    /\ pending[i].phase = "run"
    /\ \E failed \in BOOLEAN :
          \E out \in (IF failed THEN {<<>>} ELSE cmdResults(pending[i])) :
              pending' = [pending EXCEPT ![i] = [pending[i] EXCEPT !.phase = "done",
                                                                  !.err = failed, !.res = out]]
    /\ UNCHANGED <<storeVars, layoutVars, filterVars, timelineVars, scrollVars, facetVars,
                   pickVars, editVars, status, crashed>>
    /\ UNCHANGED <<pomodoroVars, toolVars, modalVars>>

\* the message of request i leaves the queue; the requests of its kind issued
\* before it and still in flight are from now on superseded (stale)
deliver(i) ==
    pending' = RemoveAt([k \in 1..Len(pending) |->
                            IF k < i /\ pending[k].kind = pending[i].kind
                            THEN [pending[k] EXCEPT !.stale = TRUE] ELSE pending[k]], i)

\* m.blocks[i], or block{} where the code would not index
blockAt(bs, i) == IF i >= 0 /\ i < Len(bs) THEN bs[i + 1] ELSE emptyBlock

\* len(m.blocks[i].entries)
entriesAt(bs, i) == Len(blockAt(bs, i).entries)

\* the new list taken without pulling the cursor back
clampCursorNot(bs, cb, ce) == [cb |-> cb, ce |-> ce]

\* Update, case blocksLoadedMsg: the cursor is pulled back inside the new list
clampCursor(bs, cb, ce) ==
    IF Len(bs) = 0 THEN [cb |-> 0, ce |-> 0]
    ELSE LET b == IF cb >= Len(bs) THEN Len(bs) - 1 ELSE cb
         IN  [cb |-> b, ce |-> IF ce >= entriesAt(bs, b) THEN entriesAt(bs, b) - 1 ELSE ce]

\* the error branch taking the message's (nil) block list like the other branch
blocksLoadedErrorBlanks ==
    /\ status' = "load error"
    /\ blocks' = <<>>
    /\ cursorBlock' = 0
    /\ cursorEntry' = 0
    /\ threadBlock' = emptyBlock

\* Update, case blocksLoadedMsg with msg.err # nil: only the status changes
blocksLoadedError ==
    /\ status' = "load error"
    /\ UNCHANGED timelineVars

\* Update, case blocksLoadedMsg with msg.err = nil
blocksLoadedApply(bs) ==
    LET c == clampCursor(bs, cursorBlock, cursorEntry)
    IN  /\ blocks' = bs
        /\ cursorBlock' = c.cb
        /\ cursorEntry' = c.ce
        /\ threadBlock' = blockAt(bs, c.cb)
        /\ UNCHANGED status

Update_blocksLoadedMsg(i) ==
    /\ ~crashed
    /\ i \in 1..Len(pending)
    /\ pending[i].kind = "blocks" /\ pending[i].phase = "done"
    /\ IF pending[i].err THEN blocksLoadedError ELSE blocksLoadedApply(pending[i].res)
    /\ deliver(i)
    /\ UNCHANGED <<storeVars, layoutVars, filterVars, scrollVars, facetVars, pickVars,
                   editVars, crashed>>
    /\ UNCHANGED <<pomodoroVars, toolVars, modalVars>>

\* Update, case facetsLoadedMsg
Update_facetsLoadedMsg(i) ==
    /\ ~crashed
    /\ i \in 1..Len(pending)
    /\ pending[i].kind = "facets" /\ pending[i].phase = "done"
    /\ IF pending[i].err THEN UNCHANGED facetVars
       ELSE /\ projects' = pending[i].res[1].projects
            /\ categories' = pending[i].res[1].cats
            /\ tags' = pending[i].res[1].tags
    /\ deliver(i)
    /\ UNCHANGED <<storeVars, layoutVars, filterVars, timelineVars, scrollVars, pickVars,
                   editVars, status, crashed>>
    /\ UNCHANGED <<pomodoroVars, toolVars, modalVars>>

\* Update, case tea.WindowSizeMsg
Heights == {16 * k : k \in 0..MaxHeight}
Update_WindowSizeMsg ==
    /\ ~crashed
    /\ \E h \in Heights : h # height /\ height' = h
    /\ UNCHANGED <<storeVars, layoutVars, filterVars, timelineVars, viewMode,
                   timelineScrollOffset, cardsScrollOffset, tableScrollOffset, kanbanScrollOffset, facetVars,
                   pickVars, editVars, status, pending, crashed>>
    /\ UNCHANGED <<pomodoroVars, toolVars, modalVars>>

\* ------------------------------------------------- updateNormal: moving
\* the height the top bar, the mini summary, the quick actions and the status
\* bar take together: one line each
ChromeHeight == 4

\* maxVisibleBlocks, maxVisibleCards and maxVisibleRows of the scrolling code
maxVisibleBlocks(h) == Max2(1, Max2(6, h - ChromeHeight - 4) \div 4)
maxVisibleCards(h) == Max2(1, Max2(8, h - ChromeHeight - 4) \div 8)
maxVisibleRows(h) == Max2(1, Max2(10, h - ChromeHeight - 7))

\* flatIndex: the entries before the cursor, over all blocks
RECURSIVE entriesBefore(_, _)
entriesBefore(bs, n) == IF n <= 0 THEN 0 ELSE entriesAt(bs, n - 1) + entriesBefore(bs, n - 1)
flatIndex(bs, cb, ce) == entriesBefore(bs, cb) + ce
totalEntries(bs) == entriesBefore(bs, Len(bs))

\* Update, case tea.KeyMsg in modeNormal: updateNormal(k)
normalKey(k) == ~crashed /\ ~quitting /\ mode = "normal" /\ k \in keyboard

\* case "tab": cycleFocus
cycleFocus ==
    /\ normalKey("tab")
    /\ CASE focus = "timeline" ->
              IF showSidebar THEN focus' = "sidebar" /\ UNCHANGED showSidebar
              ELSE IF showThread THEN focus' = "thread" /\ UNCHANGED showSidebar
              ELSE focus' = "sidebar" /\ showSidebar' = TRUE
         [] focus = "sidebar" ->
              /\ focus' = IF showThread THEN "thread" ELSE "timeline"
              /\ UNCHANGED showSidebar
         [] OTHER -> focus' = "timeline" /\ UNCHANGED showSidebar
    /\ UNCHANGED <<storeVars, mode, showThread, filterVars, timelineVars, scrollVars,
                   facetVars, pickVars, editVars, status, pending, crashed>>
    /\ UNCHANGED <<pomodoroVars, toolVars, modalVars>>

\* the list of the sidebar section the cursor is in
sectionLen(sec) == IF sec = 0 THEN Len(projects) ELSE IF sec = 1 THEN Len(categories) ELSE Len(tags)

\* case "up", "k"
updateNormal_up ==
    /\ normalKey("up")
    /\ CASE focus = "timeline" /\ blocks # <<>> ->
              LET cb == IF cursorEntry > 0 THEN cursorBlock
                        ELSE IF cursorBlock > 0 THEN cursorBlock - 1 ELSE cursorBlock
                  ce == IF cursorEntry > 0 THEN cursorEntry - 1
                        ELSE IF cursorBlock > 0 THEN entriesAt(blocks, cursorBlock - 1) - 1
                        ELSE cursorEntry
                  flat == flatIndex(blocks, cb, ce)
              IN  /\ cursorBlock' = cb
                  /\ cursorEntry' = ce
                  /\ threadBlock' = IF cb # cursorBlock THEN blockAt(blocks, cb) ELSE threadBlock
                  /\ timelineScrollOffset' =
                        IF viewMode = 0 /\ cb < timelineScrollOffset THEN Max2(0, cb)
                        ELSE timelineScrollOffset
                  /\ cardsScrollOffset' =
                        IF viewMode = 1 /\ flat < cardsScrollOffset THEN Max2(0, flat)
                        ELSE cardsScrollOffset
                  /\ tableScrollOffset' =
                        IF viewMode = 2 /\ flat < tableScrollOffset THEN Max2(0, flat)
                        ELSE tableScrollOffset
                  /\ UNCHANGED <<sidebarSection, sidebarCursor>>
         [] focus = "sidebar" ->
              /\ IF sidebarCursor > 0
                 THEN sidebarCursor' = sidebarCursor - 1 /\ UNCHANGED sidebarSection
                 ELSE IF sidebarSection > 0
                 THEN /\ sidebarSection' = sidebarSection - 1
                      /\ sidebarCursor' = sectionLen(sidebarSection - 1) - 1
                 ELSE UNCHANGED <<sidebarSection, sidebarCursor>>
              /\ UNCHANGED <<cursorBlock, cursorEntry, threadBlock, timelineScrollOffset,
                             cardsScrollOffset, tableScrollOffset>>
         [] OTHER ->
              UNCHANGED <<cursorBlock, cursorEntry, threadBlock, timelineScrollOffset,
                          cardsScrollOffset, tableScrollOffset, sidebarSection, sidebarCursor>>
    /\ UNCHANGED <<storeVars, layoutVars, filterVars, blocks, viewMode, kanbanScrollOffset, height, facetVars,
                   activePicker, pickerCursor, projectSummaryData, analyticsCursor, editVars,
                   status, pending, crashed>>
    /\ UNCHANGED <<pomodoroVars, toolVars, modalVars>>

\* case "down", "j"
updateNormal_down ==
    /\ normalKey("down")
    /\ CASE focus = "timeline" /\ blocks # <<>> ->
              LET inBlock == cursorEntry < entriesAt(blocks, cursorBlock) - 1
                  next == ~inBlock /\ cursorBlock < Len(blocks) - 1
                  cb == IF next THEN cursorBlock + 1 ELSE cursorBlock
                  ce == IF inBlock THEN cursorEntry + 1 ELSE IF next THEN 0 ELSE cursorEntry
                  flat == flatIndex(blocks, cb, ce)
                  vb == maxVisibleBlocks(height)
                  vc == maxVisibleCards(height)
                  vr == maxVisibleRows(height)
              IN  /\ cursorBlock' = cb
                  /\ cursorEntry' = ce
                  /\ threadBlock' = IF next THEN blockAt(blocks, cb) ELSE threadBlock
                  /\ timelineScrollOffset' =
                        IF viewMode = 0 /\ cb >= timelineScrollOffset + vb
                        THEN Min2(Max2(0, Len(blocks) - vb), cb - vb + 1)
                        ELSE timelineScrollOffset
                  /\ cardsScrollOffset' =
                        IF viewMode = 1 /\ flat >= cardsScrollOffset + vc
                        THEN Min2(Max2(0, totalEntries(blocks) - vc), flat - vc + 1)
                        ELSE cardsScrollOffset
                  /\ tableScrollOffset' =
                        IF viewMode = 2 /\ flat >= tableScrollOffset + vr
                        THEN Min2(Max2(0, totalEntries(blocks) - vr), flat - vr + 1)
                        ELSE tableScrollOffset
                  /\ UNCHANGED <<sidebarSection, sidebarCursor>>
         [] focus = "sidebar" ->
              /\ IF sidebarCursor < sectionLen(sidebarSection) - 1
                 THEN sidebarCursor' = sidebarCursor + 1 /\ UNCHANGED sidebarSection
                 ELSE IF sidebarSection < 2
                 THEN sidebarSection' = sidebarSection + 1 /\ sidebarCursor' = 0
                 ELSE UNCHANGED <<sidebarSection, sidebarCursor>>
              /\ UNCHANGED <<cursorBlock, cursorEntry, threadBlock, timelineScrollOffset,
                             cardsScrollOffset, tableScrollOffset>>
         [] OTHER ->
              UNCHANGED <<cursorBlock, cursorEntry, threadBlock, timelineScrollOffset,
                          cardsScrollOffset, tableScrollOffset, sidebarSection, sidebarCursor>>
    /\ UNCHANGED <<storeVars, layoutVars, filterVars, blocks, viewMode, kanbanScrollOffset, height, facetVars,
                   activePicker, pickerCursor, projectSummaryData, analyticsCursor, editVars,
                   status, pending, crashed>>
    /\ UNCHANGED <<pomodoroVars, toolVars, modalVars>>

\* case "pgup": the scroll offset moves up five blocks and the block cursor
\* follows it into the five blocks from the offset on; cursorEntry is not touched
updateNormal_pgup ==
    /\ normalKey("pgup")
    /\ IF focus = "timeline" /\ blocks # <<>>
       THEN LET off == Max2(0, timelineScrollOffset - 5)
                seen == cursorBlock >= off /\ cursorBlock < off + 5
                cb == IF seen THEN cursorBlock ELSE Min2(cursorBlock, Max2(0, off + 4))
            IN  /\ timelineScrollOffset' = off
                /\ cursorBlock' = cb
                /\ threadBlock' = IF ~seen /\ cb < Len(blocks) THEN blockAt(blocks, cb)
                                  ELSE threadBlock
       ELSE UNCHANGED <<timelineScrollOffset, cursorBlock, threadBlock>>
    /\ UNCHANGED <<storeVars, layoutVars, filterVars, blocks, cursorEntry, viewMode,
                   cardsScrollOffset, tableScrollOffset, kanbanScrollOffset, height, facetVars, pickVars,
                   editVars, status, pending, crashed>>
    /\ UNCHANGED <<pomodoroVars, toolVars, modalVars>>

\* case "pgdown": the scroll offset moves down a page and the block cursor
\* follows it into the visible blocks; cursorEntry is not touched
updateNormal_pgdown ==
    /\ normalKey("pgdown")
    /\ IF focus = "timeline" /\ blocks # <<>>
       THEN LET vb == maxVisibleBlocks(height)
                pageSize == Max2(1, vb - 1)
                off == Min2(Max2(0, Len(blocks) - vb), timelineScrollOffset + pageSize)
                seen == cursorBlock >= off /\ cursorBlock < off + vb
                cb == IF seen THEN cursorBlock ELSE Max2(off, Min2(cursorBlock, off + vb - 1))
            IN  /\ timelineScrollOffset' = off
                /\ cursorBlock' = cb
                /\ threadBlock' = IF ~seen /\ cb < Len(blocks) THEN blockAt(blocks, cb)
                                  ELSE threadBlock
       ELSE UNCHANGED <<timelineScrollOffset, cursorBlock, threadBlock>>
    /\ UNCHANGED <<storeVars, layoutVars, filterVars, blocks, cursorEntry, viewMode,
                   cardsScrollOffset, tableScrollOffset, kanbanScrollOffset, height, facetVars, pickVars,
                   editVars, status, pending, crashed>>
    /\ UNCHANGED <<pomodoroVars, toolVars, modalVars>>

\* case "home"
updateNormal_home ==
    /\ normalKey("home")
    /\ IF focus = "timeline"
       THEN /\ timelineScrollOffset' = 0
            /\ cursorBlock' = 0
            /\ cursorEntry' = 0
            /\ threadBlock' = IF blocks # <<>> THEN blockAt(blocks, 0) ELSE threadBlock
       ELSE UNCHANGED <<timelineScrollOffset, cursorBlock, cursorEntry, threadBlock>>
    /\ UNCHANGED <<storeVars, layoutVars, filterVars, blocks, viewMode, cardsScrollOffset,
                   tableScrollOffset, kanbanScrollOffset, height, facetVars, pickVars, editVars, status, pending,
                   crashed>>
    /\ UNCHANGED <<pomodoroVars, toolVars, modalVars>>

\* case "end"
updateNormal_end ==
    /\ normalKey("end")
    /\ IF focus = "timeline" /\ blocks # <<>>
       THEN /\ timelineScrollOffset' = Max2(0, Len(blocks) - maxVisibleBlocks(height))
            /\ cursorBlock' = Len(blocks) - 1
            /\ cursorEntry' = 0
            /\ threadBlock' = blockAt(blocks, Len(blocks) - 1)
       ELSE UNCHANGED <<timelineScrollOffset, cursorBlock, cursorEntry, threadBlock>>
    /\ UNCHANGED <<storeVars, layoutVars, filterVars, blocks, viewMode, cardsScrollOffset,
                   tableScrollOffset, kanbanScrollOffset, height, facetVars, pickVars, editVars, status, pending,
                   crashed>>
    /\ UNCHANGED <<pomodoroVars, toolVars, modalVars>>

\* m.blocks[m.cursorBlock].entries[m.cursorEntry] is inside the lists
cursorInRange ==
    /\ cursorBlock >= 0 /\ cursorBlock < Len(blocks)
    /\ cursorEntry >= 0 /\ cursorEntry < entriesAt(blocks, cursorBlock)

\* the entry under the cursor
cursorEntryOf == blocks[cursorBlock + 1].entries[cursorEntry + 1]

\* case "d": the entry under the cursor is deleted and the timeline reloaded; the
\* DELETE may fail, and indexing outside the lists ends the program
updateNormal_d ==
    /\ normalKey("d")
    /\ canIssue(1)
    /\ IF blocks = <<>>
       THEN UNCHANGED <<entries, status, pending, crashed>>
       ELSE IF ~cursorInRange
       THEN crashed' = TRUE /\ UNCHANGED <<entries, status, pending>>
       ELSE \E failed \in BOOLEAN :
               IF failed
               THEN status' = "Failed to delete entry" /\ UNCHANGED <<entries, pending, crashed>>
               ELSE /\ entries' = deleteEntry(entries, cursorEntryOf.id, schemaFK)
                    /\ status' = "Deleted entry"
                    /\ issue(<<timelineRequest>>)
                    /\ UNCHANGED crashed
    /\ UNCHANGED <<clock, schemaFK, keyboard, layoutVars, filterVars, timelineVars, scrollVars,
                   facetVars, pickVars, editVars>>
    /\ UNCHANGED <<pomodoroVars, toolVars, modalVars>>

\* addNotification: the message becomes the status
scopeOfKey(k) ==
    CASE k = "1" -> "today" [] k = "2" -> "yesterday" [] k = "3" -> "thisWeek"
      [] k = "4" -> "lastWeek" [] k = "5" -> "thisMonth" [] k = "6" -> "lastMonth"
      [] OTHER -> "all"
ScopeKeys == {"1", "2", "3", "4", "5", "6", "0"}

\* case "1" .. "6", "0": the scope of the key, and a timeline reload
updateNormal_digit(k) ==
    /\ normalKey(k)
    /\ canIssue(1)
    /\ scope' = scopeOfKey(k)
    /\ status' = "Scope: " \o scopeOfKey(k)
    /\ pending' = pending \o <<[timelineRequest EXCEPT !.sc = scopeOfKey(k)]>>
    /\ UNCHANGED <<storeVars, layoutVars, sinceValue, sinceInput, filterText, filterProj,
                   filterCat, filterTags, anyTags, timelineVars, scrollVars, facetVars,
                   pickVars, editVars, crashed>>
    /\ UNCHANGED <<pomodoroVars, toolVars, modalVars>>

\* case "t": today -> this week -> this month -> all -> today
updateNormal_t ==
    /\ normalKey("t")
    /\ canIssue(1)
    /\ LET sc == CASE scope = "today" -> "thisWeek" [] scope = "thisWeek" -> "thisMonth"
                   [] scope = "thisMonth" -> "all" [] OTHER -> "today"
       IN  /\ scope' = sc
           /\ status' = "Scope: " \o sc
           /\ pending' = pending \o <<[timelineRequest EXCEPT !.sc = sc]>>
    /\ UNCHANGED <<storeVars, layoutVars, sinceValue, sinceInput, filterText, filterProj,
                   filterCat, filterTags, anyTags, timelineVars, scrollVars, facetVars,
                   pickVars, editVars, crashed>>
    /\ UNCHANGED <<pomodoroVars, toolVars, modalVars>>

\* case "ctrl+g"
updateNormal_ctrl_g ==
    /\ normalKey("ctrl+g")
    /\ canIssue(1)
    /\ scope' = "today"
    /\ cursorBlock' = 0
    /\ cursorEntry' = 0
    /\ status' = "Jumped to today"
    /\ pending' = pending \o <<[timelineRequest EXCEPT !.sc = "today"]>>
    /\ UNCHANGED <<storeVars, layoutVars, sinceValue, sinceInput, filterText, filterProj,
                   filterCat, filterTags, anyTags, blocks, threadBlock, scrollVars, facetVars,
                   pickVars, editVars, crashed>>
    /\ UNCHANGED <<pomodoroVars, toolVars, modalVars>>

\* ------------------------------------------------------------ updateSearch
\* case "/"
updateNormal_slash ==
    /\ normalKey("/")
    /\ mode' = "search"
    /\ UNCHANGED <<storeVars, focus, showSidebar, showThread, filterVars, timelineVars,
                   scrollVars, facetVars, pickVars, editVars, status, pending, crashed>>
    /\ UNCHANGED <<pomodoroVars, toolVars, modalVars>>

modeKey(md, k) == ~crashed /\ ~quitting /\ mode = md /\ k \in keyboard

\* case tea.KeyEsc
updateSearch_esc ==
    /\ modeKey("search", "esc")
    /\ canIssue(1)
    /\ mode' = "normal"
    /\ filterText' = <<>>
    /\ pending' = pending \o <<[timelineRequest EXCEPT !.text = <<>>]>>
    /\ UNCHANGED <<storeVars, focus, showSidebar, showThread, scope, sinceValue, sinceInput,
                   filterProj, filterCat, filterTags, anyTags, timelineVars, scrollVars,
                   facetVars, pickVars, editVars, status, crashed>>
    /\ UNCHANGED <<pomodoroVars, toolVars, modalVars>>

\* case tea.KeyEnter
updateSearch_enter ==
    /\ modeKey("search", "enter")
    /\ mode' = "normal"
    /\ UNCHANGED <<storeVars, focus, showSidebar, showThread, filterVars, timelineVars,
                   scrollVars, facetVars, pickVars, editVars, status, pending, crashed>>
    /\ UNCHANGED <<pomodoroVars, toolVars, modalVars>>

\* case tea.KeyBackspace
updateSearch_backspace ==
    /\ modeKey("search", "backspace")
    /\ canIssue(1)
    /\ IF Len(filterText) > 0
       THEN LET txt == SubSeq(filterText, 1, Len(filterText) - 1)
            IN  /\ filterText' = txt
                /\ pending' = pending \o <<[timelineRequest EXCEPT !.text = txt]>>
       ELSE UNCHANGED <<filterText, pending>>
    /\ UNCHANGED <<storeVars, layoutVars, scope, sinceValue, sinceInput, filterProj,
                   filterCat, filterTags, anyTags, timelineVars, scrollVars, facetVars,
                   pickVars, editVars, status, crashed>>
    /\ UNCHANGED <<pomodoroVars, toolVars, modalVars>>

\* default: a printable character joins the search text
updateSearch_printable(ch) ==
    /\ modeKey("search", ch)
    /\ canIssue(1)
    /\ Len(filterText) < MaxText
    /\ filterText' = Append(filterText, ch)
    /\ pending' = pending \o <<[timelineRequest EXCEPT !.text = Append(filterText, ch)]>>
    /\ UNCHANGED <<storeVars, layoutVars, scope, sinceValue, sinceInput, filterProj,
                   filterCat, filterTags, anyTags, timelineVars, scrollVars, facetVars,
                   pickVars, editVars, status, crashed>>
    /\ UNCHANGED <<pomodoroVars, toolVars, modalVars>>

\* ------------------------------------------------------------- updateSince
\* case "s"
updateNormal_s ==
    /\ normalKey("s")
    /\ mode' = "since"
    /\ sinceInput' = <<>>
    /\ UNCHANGED <<storeVars, focus, showSidebar, showThread, scope, sinceValue, filterText,
                   filterProj, filterCat, filterTags, anyTags, timelineVars, scrollVars,
                   facetVars, pickVars, editVars, status, pending, crashed>>
    /\ UNCHANGED <<pomodoroVars, toolVars, modalVars>>

\* a parser that takes every word it does not know for today
parseSinceLenient(str, now) ==
    IF TrimSpace(str) = <<"7", "d">> THEN <<StartOfDay(now - 7 * DayLen)>>
    ELSE <<StartOfDay(now)>>

\* parseSince on the words that fit the input: "" is today and "7d" is the start
\* of the day seven days ago; <<>> is the error
parseSince(str, now) ==
    LET w == TrimSpace(str)
    IN  IF w = <<>> THEN <<StartOfDay(now)>>
        ELSE IF w = <<"7", "d">> THEN <<StartOfDay(now - 7 * DayLen)>>
        ELSE <<>>

\* case tea.KeyEsc
updateSince_esc ==
    /\ modeKey("since", "esc")
    /\ mode' = "normal"
    /\ UNCHANGED <<storeVars, focus, showSidebar, showThread, filterVars, timelineVars,
                   scrollVars, facetVars, pickVars, editVars, status, pending, crashed>>
    /\ UNCHANGED <<pomodoroVars, toolVars, modalVars>>

\* case tea.KeyEnter
updateSince_enter ==
    /\ modeKey("since", "enter")
    /\ canIssue(1)
    /\ LET ts == parseSince(sinceInput, clock)
       IN  IF ts = <<>>
           THEN /\ status' = "invalid date"
                /\ UNCHANGED <<mode, scope, sinceValue, pending>>
           ELSE /\ scope' = "since"
                /\ sinceValue' = ts
                /\ mode' = "normal"
                /\ pending' = pending \o <<[timelineRequest EXCEPT !.sc = "since", !.since = ts]>>
                /\ UNCHANGED status
    /\ UNCHANGED <<storeVars, focus, showSidebar, showThread, sinceInput, filterText,
                   filterProj, filterCat, filterTags, anyTags, timelineVars, scrollVars,
                   facetVars, pickVars, editVars, crashed>>
    /\ UNCHANGED <<pomodoroVars, toolVars, modalVars>>

\* any other key goes to the text input
updateSince_input(ch) ==
    /\ modeKey("since", ch)
    /\ Len(sinceInput) < MaxText
    /\ sinceInput' = Append(sinceInput, ch)
    /\ UNCHANGED <<storeVars, layoutVars, scope, sinceValue, filterText, filterProj,
                   filterCat, filterTags, anyTags, timelineVars, scrollVars, facetVars,
                   pickVars, editVars, status, pending, crashed>>
    /\ UNCHANGED <<pomodoroVars, toolVars, modalVars>>

\* ------------------------------------------------------------ updatePicker
\* places the picker cursor may be moved down to
MaxPicker == 2

\* case "p", "c", "#"
pickerOfKey(k) == IF k = "p" THEN "projects" ELSE IF k = "c" THEN "categories" ELSE "tags"
updateNormal_picker(k) ==
    /\ normalKey(k)
    /\ mode' = "picker"
    /\ activePicker' = pickerOfKey(k)
    /\ pickerCursor' = 0
    /\ UNCHANGED <<storeVars, focus, showSidebar, showThread, filterVars, timelineVars,
                   scrollVars, facetVars, sidebarSection, sidebarCursor, projectSummaryData,
                   analyticsCursor, editVars, status, pending, crashed>>
    /\ UNCHANGED <<pomodoroVars, toolVars, modalVars>>

updatePicker_esc ==
    /\ modeKey("picker", "esc")
    /\ mode' = "normal"
    /\ UNCHANGED <<storeVars, focus, showSidebar, showThread, filterVars, timelineVars,
                   scrollVars, facetVars, pickVars, editVars, status, pending, crashed>>
    /\ UNCHANGED <<pomodoroVars, toolVars, modalVars>>

updatePicker_up ==
    /\ modeKey("picker", "up")
    /\ pickerCursor' = IF pickerCursor > 0 THEN pickerCursor - 1 ELSE pickerCursor
    /\ UNCHANGED <<storeVars, layoutVars, filterVars, timelineVars, scrollVars, facetVars,
                   activePicker, sidebarSection, sidebarCursor, projectSummaryData,
                   analyticsCursor, editVars, status, pending, crashed>>
    /\ UNCHANGED <<pomodoroVars, toolVars, modalVars>>

updatePicker_down ==
    /\ modeKey("picker", "down")
    /\ pickerCursor < MaxPicker
    /\ pickerCursor' = pickerCursor + 1
    /\ UNCHANGED <<storeVars, layoutVars, filterVars, timelineVars, scrollVars, facetVars,
                   activePicker, sidebarSection, sidebarCursor, projectSummaryData,
                   analyticsCursor, editVars, status, pending, crashed>>
    /\ UNCHANGED <<pomodoroVars, toolVars, modalVars>>

\* clamp(v, lo, hi)
clamp(v, lo, hi) == IF v < lo THEN lo ELSE IF v > hi THEN hi ELSE v

\* picker confirm returning the timeline reload alone
pickerConfirmCmdsNoFacets(req) == <<req>>

\* the commands picker confirm returns: tea.Batch(loadTimelineCmd, loadFacetsCmd)
pickerConfirmCmds(req) == <<req, facetsRequest>>

\* a confirm that sets the label under the cursor and never clears it
pickerConfirmSet(picker, name, f) ==
    [proj |-> IF picker = "projects" THEN name ELSE f.proj,
     cat |-> IF picker = "categories" THEN ToLower(name) ELSE f.cat,
     tagSet |-> IF picker = "tags" THEN f.tagSet \cup {name} ELSE f.tagSet]

\* case "enter", the filters f after the label name of the picker is confirmed:
\* the project or the category is cleared when it is the one chosen and set
\* otherwise, the tag leaves the set when it is in it and joins it otherwise
pickerConfirm(picker, name, f) ==
    [proj |-> IF picker # "projects" THEN f.proj
              ELSE IF f.proj = name THEN <<>> ELSE name,
     cat |-> IF picker # "categories" THEN f.cat
             ELSE IF f.cat = ToLower(name) THEN "" ELSE ToLower(name),
     tagSet |-> IF picker # "tags" THEN f.tagSet
                ELSE IF name \in f.tagSet THEN f.tagSet \ {name}
                ELSE f.tagSet \cup {name}]

\* case "enter": the label under the cursor is toggled in its filter; the tag
\* filter is written through the shared map.  An empty list changes nothing
updatePicker_enter ==
    /\ modeKey("picker", "enter")
    /\ canIssue(2)
    /\ LET list == IF activePicker = "projects" THEN projects
                   ELSE IF activePicker = "categories" THEN categories ELSE tags
           name == list[clamp(pickerCursor, 0, Len(list) - 1) + 1].name
           r == pickerConfirm(activePicker, name,
                              [proj |-> filterProj, cat |-> filterCat, tagSet |-> filterTags])
           proj == r.proj
           cat == r.cat
           tgs == r.tagSet
       IN  IF list = <<>>
           THEN UNCHANGED <<mode, filterProj, filterCat, filterTags, pending>>
           ELSE /\ filterProj' = proj
                /\ filterCat' = cat
                /\ filterTags' = tgs
                /\ mode' = "normal"
                /\ pending' = shareTags(pending, tgs)
                                \o pickerConfirmCmds([timelineRequest EXCEPT
                                      !.proj = proj, !.cat = cat, !.tagSet = tgs])
    /\ UNCHANGED <<storeVars, focus, showSidebar, showThread, scope, sinceValue, sinceInput,
                   filterText, anyTags, timelineVars, scrollVars, facetVars, pickVars,
                   editVars, status, crashed>>
    /\ UNCHANGED <<pomodoroVars, toolVars, modalVars>>

\* ------------------------------------------------- updateNormal: the sidebar
\* case " " with the focus on the sidebar: the filter of the section is cleared,
\* or every tag selected; the timeline is reloaded whatever happened
updateNormal_space ==
    /\ normalKey(" ")
    /\ focus = "sidebar"
    /\ canIssue(1)
    /\ LET clearProj == sidebarSection = 0 /\ projects # <<>> /\ filterProj # <<>>
           clearCat == sidebarSection = 1 /\ categories # <<>> /\ filterCat # ""
           clearTags == sidebarSection = 2 /\ tags # <<>> /\ filterTags # {}
           allTags == sidebarSection = 2 /\ tags # <<>> /\ filterTags = {}
           proj == IF clearProj THEN <<>> ELSE filterProj
           cat == IF clearCat THEN "" ELSE filterCat
           tgs == IF clearTags THEN {}
                  ELSE IF allTags THEN {tags[k].name : k \in 1..Len(tags)} ELSE filterTags
           told == (sidebarSection = 0 /\ projects # <<>>) \/ (sidebarSection = 1 /\ categories # <<>>)
                     \/ (sidebarSection = 2 /\ tags # <<>>)
       IN  /\ filterProj' = proj
           /\ filterCat' = cat
           /\ filterTags' = tgs
           /\ status' = IF told THEN "sidebar filter" ELSE status
           /\ pending' = (IF clearTags THEN unshareTags(pending)
                          ELSE IF allTags THEN shareTags(pending, tgs) ELSE pending)
                           \o <<[timelineRequest EXCEPT !.proj = proj, !.cat = cat, !.tagSet = tgs]>>
    /\ UNCHANGED <<storeVars, layoutVars, scope, sinceValue, sinceInput, filterText, anyTags,
                   timelineVars, scrollVars, facetVars, pickVars, editVars, crashed>>
    /\ UNCHANGED <<pomodoroVars, toolVars, modalVars>>

\* ---------------------------------------------------- updateProjectSummary
\* case "J"
updateNormal_J ==
    /\ normalKey("J")
    /\ canIssue(1)
    /\ mode' = "projectSummary"
    /\ issue(<<projectSummaryRequest>>)
    /\ UNCHANGED <<storeVars, focus, showSidebar, showThread, filterVars, timelineVars,
                   scrollVars, facetVars, pickVars, editVars, status, crashed>>
    /\ UNCHANGED <<pomodoroVars, toolVars, modalVars>>

\* Update, case projectSummaryLoadedMsg
Update_projectSummaryLoadedMsg(i) ==
    /\ ~crashed
    /\ i \in 1..Len(pending)
    /\ pending[i].kind = "projectSummary" /\ pending[i].phase = "done"
    /\ IF pending[i].err
       THEN status' = "Failed to load project summary" /\ UNCHANGED projectSummaryData
       ELSE projectSummaryData' = pending[i].res /\ UNCHANGED status
    /\ deliver(i)
    /\ UNCHANGED <<storeVars, layoutVars, filterVars, timelineVars, scrollVars, facetVars,
                   activePicker, pickerCursor, sidebarSection, sidebarCursor, analyticsCursor,
                   editVars, crashed>>
    /\ UNCHANGED <<pomodoroVars, toolVars, modalVars>>

updateProjectSummary_esc ==
    /\ modeKey("projectSummary", "esc")
    /\ mode' = "normal"
    /\ UNCHANGED <<storeVars, focus, showSidebar, showThread, filterVars, timelineVars,
                   scrollVars, facetVars, pickVars, editVars, status, pending, crashed>>
    /\ UNCHANGED <<pomodoroVars, toolVars, modalVars>>

updateProjectSummary_up ==
    /\ modeKey("projectSummary", "up")
    /\ analyticsCursor' = IF analyticsCursor > 0 THEN analyticsCursor - 1 ELSE analyticsCursor
    /\ UNCHANGED <<storeVars, layoutVars, filterVars, timelineVars, scrollVars, facetVars,
                   activePicker, pickerCursor, sidebarSection, sidebarCursor,
                   projectSummaryData, editVars, status, pending, crashed>>
    /\ UNCHANGED <<pomodoroVars, toolVars, modalVars>>

updateProjectSummary_down ==
    /\ modeKey("projectSummary", "down")
    /\ analyticsCursor' = IF analyticsCursor < Len(projectSummaryData) - 1
                          THEN analyticsCursor + 1 ELSE analyticsCursor
    /\ UNCHANGED <<storeVars, layoutVars, filterVars, timelineVars, scrollVars, facetVars,
                   activePicker, pickerCursor, sidebarSection, sidebarCursor,
                   projectSummaryData, editVars, status, pending, crashed>>
    /\ UNCHANGED <<pomodoroVars, toolVars, modalVars>>

\* choosing a project in the summary without reloading the timeline
projectChosenCmdsNone(req) == <<>>

\* the command choosing a project in the summary returns
projectChosenCmds(req) == <<req>>

\* case "enter": the project under the cursor becomes the project filter
updateProjectSummary_enter ==
    /\ modeKey("projectSummary", "enter")
    /\ canIssue(1)
    /\ IF Len(projectSummaryData) > 0 /\ analyticsCursor < Len(projectSummaryData)
       THEN LET project == projectSummaryData[analyticsCursor + 1]
            IN  /\ filterProj' = project
                /\ mode' = "normal"
                /\ status' = "Filtering by project"
                /\ pending' = pending \o projectChosenCmds([timelineRequest EXCEPT !.proj = project])
       ELSE UNCHANGED <<filterProj, mode, status, pending>>
    /\ UNCHANGED <<storeVars, focus, showSidebar, showThread, scope, sinceValue, sinceInput,
                   filterText, filterCat, filterTags, anyTags, timelineVars, scrollVars,
                   facetVars, pickVars, editVars, crashed>>
    /\ UNCHANGED <<pomodoroVars, toolVars, modalVars>>

\* ------------------------------------------------------- stores to start from
\* a row written by `pulse log` or by the session: thread_id is NULL for a root
\* and the id of an earlier root for a reply, and time does not run backwards;
\* lo is the second of the oldest row
rowsAfter(st, lo, texts, projs, tagss, cats) ==
    {[ts |-> t, category |-> c, text |-> x, project |-> p, tags |-> g,
      thread_id |-> th, parent_id |-> th] :
        t \in (IF st = <<>> THEN lo ELSE st[Len(st)].ts)..MaxClock,
        c \in cats, x \in texts, p \in projs, g \in tagss,
        th \in {0} \cup {i \in 1..Len(st) : st[i].thread_id = 0}}

RECURSIVE storesOfLen(_, _, _, _, _, _)
storesOfLen(n, lo, texts, projs, tagss, cats) ==
    IF n = 0 THEN {<<>>}
    ELSE UNION {{Append(st, row) : row \in rowsAfter(st, lo, texts, projs, tagss, cats)} :
                   st \in storesOfLen(n - 1, lo, texts, projs, tagss, cats)}

storesUpTo(n, lo, texts, projs, tagss, cats) ==
    UNION {storesOfLen(k, lo, texts, projs, tagss, cats) : k \in 0..n}

\* ------------------------------------------- the aggregator on its own
\* loadBlocks applied once to a store, a scope and a text filter drawn from
\* bounded sets: the stores of up to MaxEntries rows, one of them deleted or not
LoadTexts == {<<"x">>, <<"y">>}

InitLoad ==
    /\ schemaFK \in BOOLEAN
    /\ keyboard = {}
    /\ clock = MaxClock
    /\ \E st \in storesUpTo(MaxEntries, 1, LoadTexts, {NULL}, {NULL}, {"note"}) :
          entries \in {st} \cup {deleteEntry(st, i, schemaFK) : i \in DOMAIN st}
    /\ mode = "normal" /\ focus = "timeline" /\ showSidebar = FALSE /\ showThread = FALSE
    /\ scope \in {"all", "today"} /\ sinceValue = <<>> /\ sinceInput = <<>>
    /\ filterText \in {<<>>} \cup LoadTexts
    /\ filterProj = <<>> /\ filterCat = "" /\ filterTags = {} /\ anyTags = FALSE
    /\ blocks = <<>> /\ cursorBlock = 0 /\ cursorEntry = 0 /\ threadBlock = emptyBlock
    /\ viewMode = 0 /\ timelineScrollOffset = 0 /\ cardsScrollOffset = 0
    /\ tableScrollOffset = 0 /\ kanbanScrollOffset = 0 /\ height = 0
    /\ projects = <<>> /\ categories = <<>> /\ tags = <<>>
    /\ activePicker = "" /\ pickerCursor = 0 /\ sidebarSection = 0 /\ sidebarCursor = 0
    /\ projectSummaryData = <<>> /\ analyticsCursor = 0
    /\ editor = <<>> /\ editProject = <<>> /\ editTags = <<>> /\ editField = 0
    /\ inputFocus = {}
    /\ editTargetID = 0 /\ replyParentID = 0
    /\ status = ""
    /\ pomodoroActive = FALSE /\ pomodoroTimeLeft = 0 /\ pomodoroSession = 0
    /\ pomodoroWorkSessions = 0 /\ pomodoroTotalTime = 0 /\ pomodoroSessionsCount = 0
    /\ pomodoroTicks = 0
    /\ focusMode = FALSE /\ calendarPreviewMode = FALSE /\ quitting = FALSE
    /\ cli = [p \in 1..MaxProcs |-> idleProc] /\ reminder = noReminder /\ listing = noListing
    /\ pending = <<timelineRequest>>
    /\ crashed = FALSE

NextLoad ==
    \/ \E i \in 1..MaxInflight : runCmd(i)
    \/ \E i \in 1..MaxInflight : Update_blocksLoadedMsg(i)

SpecLoad == InitLoad /\ [][NextLoad]_vars

\* C4: for every entry E with thread_id = R, a block that loadBlocks returns for
\* root R holds E, and the entries of every block are in ascending order of
\* timestamp, equal timestamps in ascending order of id, whichever rows of the
\* thread matched the filter.
C4_ThreadIntegrity ==
    \A k \in 1..Len(blocks) :
        LET b == blocks[k]
        IN  /\ \A i \in Ids(entries) :
                  entries[i].thread_id = b.rootID =>
                      \E j \in 1..Len(b.entries) : b.entries[j].id = i
            /\ \A j \in 1..(Len(b.entries) - 1) :
                  \/ b.entries[j].when < b.entries[j + 1].when
                  \/ /\ b.entries[j].when = b.entries[j + 1].when
                     /\ b.entries[j].id < b.entries[j + 1].id

\* a loaded block of a root and its reply, written in the same second, where the
\* text filter matched only one of the two
C4_Witness ==
    /\ filterText # <<>>
    /\ \E k \in 1..Len(blocks) :
          /\ Len(blocks[k].entries) >= 2
          /\ blocks[k].entries[1].when = blocks[k].entries[2].when
          /\ \E j \in 1..Len(blocks[k].entries) : ~Instr(blocks[k].entries[j].text, filterText)
          /\ \E j \in 1..Len(blocks[k].entries) :
                entries[blocks[k].entries[j].id].thread_id = blocks[k].rootID

\* C5: the blocks loadBlocks returns are in descending order of recency, the
\* recency of a block being the greatest timestamp among all the entries of its
\* thread, not only among those that match the filter.
C5_RecencyOverAllMembers ==
    \A k \in 1..(Len(blocks) - 1) :
        MaxOf({blocks[k].entries[j].when : j \in 1..Len(blocks[k].entries)})
            >= MaxOf({blocks[k + 1].entries[j].when : j \in 1..Len(blocks[k + 1].entries)})

\* ------------------------------------------------------------ the session
\* New and Init: the model as constructed, over a store that earlier runs
\* wrote, with the facet reload and the timeline reload of Init in flight
initSessionAt(stores, fks, keyboards, clocks) ==
    /\ schemaFK \in fks
    /\ keyboard \in keyboards
    /\ clock \in clocks
    /\ entries \in stores
    /\ mode = "normal" /\ focus = "timeline" /\ showSidebar = FALSE /\ showThread = FALSE
    /\ scope = "today" /\ sinceValue = <<>> /\ sinceInput = <<>>
    /\ filterText = <<>> /\ filterProj = <<>> /\ filterCat = "" /\ filterTags = {}
    /\ anyTags = FALSE
    /\ blocks = <<>> /\ cursorBlock = 0 /\ cursorEntry = 0 /\ threadBlock = emptyBlock
    /\ viewMode = 0 /\ timelineScrollOffset = 0 /\ cardsScrollOffset = 0
    /\ tableScrollOffset = 0 /\ kanbanScrollOffset = 0 /\ height = 0
    /\ projects = <<>> /\ categories = <<>> /\ tags = <<>>
    /\ activePicker = "" /\ pickerCursor = 0 /\ sidebarSection = 0 /\ sidebarCursor = 0
    /\ projectSummaryData = <<>> /\ analyticsCursor = 0
    /\ editor = <<>> /\ editProject = <<>> /\ editTags = <<>> /\ editField = 0
    /\ inputFocus = {}
    /\ editTargetID = 0 /\ replyParentID = 0
    /\ status = ""
    /\ pomodoroActive = FALSE /\ pomodoroTimeLeft = 0 /\ pomodoroSession = 0
    /\ pomodoroWorkSessions = 0 /\ pomodoroTotalTime = 0 /\ pomodoroSessionsCount = 0
    /\ pomodoroTicks = 0
    /\ focusMode = FALSE /\ calendarPreviewMode = FALSE /\ quitting = FALSE
    /\ cli = [p \in 1..MaxProcs |-> idleProc] /\ reminder = noReminder /\ listing = noListing
    /\ pending = <<facetsRequest, timelineRequest>>
    /\ crashed = FALSE

\* the session started at the last second of the clock
initSession(stores, fks, keyboards) == initSessionAt(stores, fks, keyboards, {MaxClock})

\* the session moving over the timeline of a store of MaxEntries rows, the
\* oldest written at second DayLen: the reloads, the cursor keys, the page keys,
\* resizing, and the scopes "today" and "all"
Init ==
    initSession(storesOfLen(MaxEntries, DayLen, {<<"x">>}, {NULL}, {NULL}, {"note"}), {FALSE},
                {{"up", "down", "pgup", "pgdown", "home", "end", "1", "0"}})

Next ==
    \/ \E i \in 1..MaxInflight : runCmd(i)
    \/ \E i \in 1..MaxInflight : Update_blocksLoadedMsg(i)
    \/ \E i \in 1..MaxInflight : Update_facetsLoadedMsg(i)
    \/ Update_WindowSizeMsg
    \/ updateNormal_up
    \/ updateNormal_down
    \/ updateNormal_pgup
    \/ updateNormal_pgdown
    \/ updateNormal_home
    \/ updateNormal_end
    \/ \E k \in {"1", "0"} : updateNormal_digit(k)

Spec == Init /\ [][Next]_vars

\* C1: in every reachable state of the session, if blocks is not empty then
\* 0 <= cursorBlock < len(blocks) and 0 <= cursorEntry <
\* len(blocks[cursorBlock].entries), and if blocks is empty then both are 0.
C1_CursorInvariant ==
    IF blocks = <<>> THEN cursorBlock = 0 /\ cursorEntry = 0
    ELSE /\ 0 <= cursorBlock /\ cursorBlock < Len(blocks)
         /\ 0 <= cursorEntry /\ cursorEntry < entriesAt(blocks, cursorBlock)

\* C6: when a timeline reload fails, the block list, the cursor and the thread
\* pane stay as they were: the handler of the failed result only sets the status.
C6_FailedReloadKeepsTimeline ==
    [][\A i \in 1..Len(pending) :
          (pending[i].err /\ Update_blocksLoadedMsg(i)) =>
              /\ blocks' = blocks
              /\ cursorBlock' = cursorBlock /\ cursorEntry' = cursorEntry
              /\ threadBlock' = threadBlock
              /\ status' = "load error"]_vars

\* a failed reload has been handled while the timeline showed blocks
C6_Witness == status = "load error" /\ blocks # <<>> /\ cursorInRange

\* C7: right after a reload result of N blocks is applied, cursorBlock <
\* max(1, N) and, if N > 0, cursorEntry < len(blocks[cursorBlock].entries).
C7_ClampAfterReload ==
    [][\A i \in 1..Len(pending) :
          (~pending[i].err /\ Update_blocksLoadedMsg(i)) =>
              /\ cursorBlock' < Max2(1, Len(blocks'))
              /\ Len(blocks') > 0 => cursorEntry' < entriesAt(blocks', cursorBlock')]_vars

\* a shorter list has been applied since the view was scrolled: the scroll
\* offset is still past its end, and the cursor is on its last block
C7_Witness ==
    /\ blocks # <<>>
    /\ timelineScrollOffset >= Len(blocks)
    /\ cursorBlock = Len(blocks) - 1
    /\ cursorEntry < entriesAt(blocks, cursorBlock)

\* ------------------------------------------- the session changing its filters
\* A user who keeps to one group of keys: the scopes, the since input, the
\* search box, the pickers, the sidebar or the project summary.
ScopeKeyboard == ScopeKeys \cup {"t", "ctrl+g"}
SinceKeyboard == {"s", "7", "d", "enter", "esc"}
SearchKeyboard == {"/", "x", "backspace", "enter", "esc"}
PickerKeyboard == {"p", "c", "#", "up", "down", "enter", "esc"}
SidebarKeyboard == {"tab", "up", "down", " "}
SummaryKeyboard == {"J", "up", "down", "enter", "esc"}

\* stores of MaxEntries - 2 rows of project "p" and tags "a,b"
FilterStores ==
    storesOfLen(MaxEntries - 2, DayLen, {<<"x">>, <<"y">>}, {<<"p">>}, {<<"a", ",", "b">>},
                {"note"})

InitFilter ==
    initSession(FilterStores, {FALSE},
                {ScopeKeyboard, SinceKeyboard, SearchKeyboard, PickerKeyboard, SidebarKeyboard,
                 SummaryKeyboard})

NextFilter ==
    \/ \E i \in 1..MaxInflight : runCmd(i)
    \/ \E i \in 1..MaxInflight : Update_blocksLoadedMsg(i)
    \/ \E i \in 1..MaxInflight : Update_facetsLoadedMsg(i)
    \/ \E i \in 1..MaxInflight : Update_projectSummaryLoadedMsg(i)
    \/ \E k \in ScopeKeys : updateNormal_digit(k)
    \/ updateNormal_t
    \/ updateNormal_ctrl_g
    \/ updateNormal_s
    \/ updateSince_esc
    \/ updateSince_enter
    \/ \E ch \in {"7", "d"} : updateSince_input(ch)
    \/ updateNormal_slash
    \/ updateSearch_esc
    \/ updateSearch_enter
    \/ updateSearch_backspace
    \/ \E ch \in {"x"} : updateSearch_printable(ch)
    \/ \E k \in {"p", "c", "#"} : updateNormal_picker(k)
    \/ updatePicker_esc
    \/ updatePicker_up
    \/ updatePicker_down
    \/ updatePicker_enter
    \/ cycleFocus
    \/ updateNormal_up
    \/ updateNormal_down
    \/ updateNormal_space
    \/ updateNormal_J
    \/ updateProjectSummary_esc
    \/ updateProjectSummary_up
    \/ updateProjectSummary_down
    \/ updateProjectSummary_enter

SpecFilter == InitFilter /\ [][NextFilter]_vars

\* C2: the result of an earlier, superseded timeline reload that arrives after
\* the result of a later one never overwrites the newer block list: applying a
\* stale result leaves blocks as it is.
C2_StaleResultDiscarded ==
    [][\A i \in 1..Len(pending) :
          (pending[i].stale /\ Update_blocksLoadedMsg(i)) => blocks' = blocks]_vars

\* C9 as stated: every filter mutation (picker confirm, each search-text change,
\* each tag toggle) issues a facet reload besides the timeline reload.
C9_EveryFilterMutationReloadsFacets ==
    [][(filterText' # filterText \/ filterProj' # filterProj \/ filterCat' # filterCat
           \/ filterTags' # filterTags) =>
          /\ \E k \in (Len(pending) + 1)..Len(pending') : pending'[k].kind = "blocks"
          /\ \E k \in (Len(pending) + 1)..Len(pending') : pending'[k].kind = "facets"]_vars

\* C9, amended: a picker confirm that changes a filter issues a timeline reload
\* and a facet reload; a change of the search text, and a filter changed with
\* the space key of the sidebar, issue a timeline reload and no facet reload.
C9_PickerConfirmReloadsFacets ==
    [][LET changed == filterText' # filterText \/ filterProj' # filterProj
                        \/ filterCat' # filterCat \/ filterTags' # filterTags
           new == (Len(pending) + 1)..Len(pending')
           timeline == \E k \in new : pending'[k].kind = "blocks"
           facets == \E k \in new : pending'[k].kind = "facets"
       IN  /\ (mode = "picker" /\ changed) => (timeline /\ facets)
           /\ (mode = "search" /\ changed) => (timeline /\ ~facets)
           /\ (mode = "normal" /\ focus = "sidebar" /\ changed) => (timeline /\ ~facets)]_vars

\* a project just chosen in the picker: both reloads are in flight
C9_Witness ==
    /\ keyboard = PickerKeyboard
    /\ mode = "normal"
    /\ filterProj # <<>>
    /\ Len(pending) = 2
    /\ pending[1].kind = "blocks" /\ pending[1].phase = "run" /\ pending[1].proj = filterProj
    /\ pending[2].kind = "facets" /\ pending[2].phase = "run"

\* C10: every transition that changes the scope, the since instant or a filter
\* (the keys 1..6 and 0, t, the confirmed since input, picker confirm, a change of
\* the search text, the tag toggles, the project chosen in the summary) issues
\* in that transition a timeline reload for the new scope and filters.
C10_ChangeIssuesTimelineReload ==
    [][(scope' # scope \/ sinceValue' # sinceValue \/ filterText' # filterText
           \/ filterProj' # filterProj \/ filterCat' # filterCat
           \/ filterTags' # filterTags) =>
          \E k \in (Len(pending) + 1)..Len(pending') :
              /\ pending'[k].kind = "blocks" /\ pending'[k].phase = "run"
              /\ pending'[k].sc = scope' /\ pending'[k].since = sinceValue'
              /\ pending'[k].text = filterText' /\ pending'[k].proj = filterProj'
              /\ pending'[k].cat = filterCat' /\ pending'[k].tagSet = filterTags']_vars

\* a project just chosen in the project summary, its timeline reload in flight
C10_Witness ==
    /\ keyboard = SummaryKeyboard
    /\ mode = "normal"
    /\ filterProj # <<>>
    /\ status = "Filtering by project"
    /\ \E k \in 1..Len(pending) :
          pending[k].kind = "blocks" /\ pending[k].phase = "run" /\ pending[k].proj = filterProj

\* ------------------------------------------------------------ reply and edit
\* textarea.Model.Focus and Blur have pointer receivers and act on m.editor
textarea_Focus(foc) == foc \cup {"editor"}
textarea_Blur(foc) == foc \ {"editor"}

\* AutocompleteModel.SetValue has a value receiver: the textinput it writes is
\* the one of a copy, and the buffer of the caller keeps its value
AutocompleteModel_SetValue(buf, value) == buf

\* AutocompleteModel.Focus and Blur have value receivers too: the input made by
\* textinput.New() is without focus and stays so
AutocompleteModel_Focus(foc, field) == foc
AutocompleteModel_Blur(foc, field) == foc

\* AutocompleteModel.Update on a typed character: the textinput takes the key
\* when it has the focus and ignores it otherwise
AutocompleteModel_Update(buf, focused, ch) == IF focused THEN Append(buf, ch) ELSE buf

\* a reply that is stored as a root of its own when its parent is gone
insertReplyOrphan(ents, now, parentID, text, project, tagsCSV) ==
    [err |-> FALSE,
     ents |-> insertRow(ents,
                [ts |-> now, category |-> "note", text |-> text,
                 project |-> nullIfEmpty(project), tags |-> nullIfEmpty(tagsCSV),
                 thread_id |-> 0, parent_id |-> 0])]

\* a reply that stores the two overrides as the form gives them
insertReplyAsGiven(ents, now, parentID, text, project, tagsCSV) ==
    IF parentID \notin Ids(ents) THEN [err |-> TRUE, ents |-> ents]
    ELSE LET parent == ents[parentID]
         IN  [err |-> FALSE,
              ents |-> insertRow(ents,
                         [ts |-> now,
                          category |-> IF parent.category # "" THEN ToLower(parent.category)
                                       ELSE "note",
                          text |-> text,
                          project |-> nullIfEmpty(project), tags |-> nullIfEmpty(tagsCSV),
                          thread_id |-> RootThreadID(ents, parentID),
                          parent_id |-> parentID])]

\* insertReplyWithProjectTags: GetEntry of the parent fails when the row is gone;
\* the reply joins the parent's thread with the parent's category, and an empty
\* project or tags override falls back to the parent's value
insertReplyWithProjectTags(ents, now, parentID, text, project, tagsCSV) ==
    IF parentID \notin Ids(ents) THEN [err |-> TRUE, ents |-> ents]
    ELSE LET parent == ents[parentID]
             cat == IF parent.category # "" THEN ToLower(parent.category) ELSE "note"
             proj == IF project = <<>> THEN Coalesce(parent.project, <<>>) ELSE project
             tgs == IF tagsCSV = <<>> THEN Coalesce(parent.tags, <<>>) ELSE tagsCSV
         IN  [err |-> FALSE,
              ents |-> insertRow(ents,
                         [ts |-> now, category |-> cat, text |-> text,
                          project |-> nullIfEmpty(proj), tags |-> nullIfEmpty(tgs),
                          thread_id |-> RootThreadID(ents, parentID),
                          parent_id |-> parentID])]

\* an UPDATE that writes the two overrides as given
updateEntryTextProjectTagsDirect(ents, id, text, project, tagsCSV) ==
    [i \in Ids(ents) |->
        IF i # id THEN ents[i]
        ELSE [ents[i] EXCEPT !.text = text, !.project = nullIfEmpty(project),
                             !.tags = nullIfEmpty(tagsCSV)]]

\* updateEntryTextProjectTags: UPDATE entries SET text = ?,
\* project = COALESCE(NULLIF(?, ''), project), tags = COALESCE(NULLIF(?, ''), tags)
\* WHERE id = ?; no row of that id is no error
updateEntryTextProjectTags(ents, id, text, project, tagsCSV) ==
    [i \in Ids(ents) |->
        IF i # id THEN ents[i]
        ELSE [ents[i] EXCEPT !.text = text,
                             !.project = IF project = <<>> THEN @ ELSE project,
                             !.tags = IF tagsCSV = <<>> THEN @ ELSE tagsCSV]]

\* case "r": the entry under the cursor becomes the parent of a reply
updateNormal_r ==
    /\ normalKey("r")
    /\ IF blocks = <<>>
       THEN UNCHANGED <<mode, editVars, crashed>>
       ELSE IF ~cursorInRange
       THEN crashed' = TRUE /\ UNCHANGED <<mode, editVars>>
       ELSE LET parent == cursorEntryOf
            IN  /\ replyParentID' = parent.id
                /\ editor' = <<>>
                /\ editProject' = AutocompleteModel_SetValue(editProject, parent.project)
                /\ editTags' = AutocompleteModel_SetValue(editTags, Join(parent.tags, <<",", " ">>))
                /\ editField' = 0
                /\ inputFocus' = textarea_Focus(inputFocus)
                /\ mode' = "reply"
                /\ UNCHANGED <<editTargetID, crashed>>
    /\ UNCHANGED <<storeVars, focus, showSidebar, showThread, filterVars, timelineVars,
                   scrollVars, facetVars, pickVars, status, pending>>
    /\ UNCHANGED <<pomodoroVars, toolVars, modalVars>>

\* case "e": the entry under the cursor becomes the target of an edit
updateNormal_e ==
    /\ normalKey("e")
    /\ IF blocks = <<>>
       THEN UNCHANGED <<mode, editVars, crashed>>
       ELSE IF ~cursorInRange
       THEN crashed' = TRUE /\ UNCHANGED <<mode, editVars>>
       ELSE LET target == cursorEntryOf
            IN  /\ editTargetID' = target.id
                /\ editor' = target.text
                /\ editProject' = AutocompleteModel_SetValue(editProject, target.project)
                /\ editTags' = AutocompleteModel_SetValue(editTags, Join(target.tags, <<",", " ">>))
                /\ editField' = 0
                /\ inputFocus' = textarea_Focus(inputFocus)
                /\ mode' = "edit"
                /\ UNCHANGED <<replyParentID, crashed>>
    /\ UNCHANGED <<storeVars, focus, showSidebar, showThread, filterVars, timelineVars,
                   scrollVars, facetVars, pickVars, status, pending>>
    /\ UNCHANGED <<pomodoroVars, toolVars, modalVars>>

\* updateEditor runs in the reply and the edit mode
editorKey(k) == ~crashed /\ ~quitting /\ mode \in {"reply", "edit"} /\ k \in keyboard

\* case "esc": the editor is left and nothing is written
updateEditor_esc ==
    /\ editorKey("esc")
    /\ mode' = "normal"
    /\ UNCHANGED <<storeVars, focus, showSidebar, showThread, filterVars, timelineVars,
                   scrollVars, facetVars, pickVars, editVars, status, pending, crashed>>
    /\ UNCHANGED <<pomodoroVars, toolVars, modalVars>>

\* case "tab": text -> project -> tags -> buttons -> text
updateEditor_tab ==
    /\ editorKey("tab")
    /\ editField' = (editField + 1) % 4
    /\ inputFocus' =
          LET ed == IF editField' = 0 THEN textarea_Focus(inputFocus)
                    ELSE textarea_Blur(inputFocus)
              pr == IF editField' = 1 THEN AutocompleteModel_Focus(ed, "project")
                    ELSE AutocompleteModel_Blur(ed, "project")
          IN  IF editField' = 2 THEN AutocompleteModel_Focus(pr, "tags")
              ELSE AutocompleteModel_Blur(pr, "tags")
    /\ UNCHANGED <<storeVars, layoutVars, filterVars, timelineVars, scrollVars, facetVars,
                   pickVars, editor, editProject, editTags, editTargetID, replyParentID,
                   status, pending, crashed>>
    /\ UNCHANGED <<pomodoroVars, toolVars, modalVars>>

\* the characters the user types into the editor
EditChars == {"q"}

\* any other key goes to the field editField names
updateEditor_rune(ch) ==
    /\ editorKey(ch)
    /\ Len(editor) < MaxText /\ Len(editProject) < MaxText /\ Len(editTags) < MaxText
    /\ editor' = IF editField = 0 /\ "editor" \in inputFocus THEN Append(editor, ch) ELSE editor
    /\ editProject' = IF editField = 1
                      THEN AutocompleteModel_Update(editProject, "project" \in inputFocus, ch)
                      ELSE editProject
    /\ editTags' = IF editField = 2
                   THEN AutocompleteModel_Update(editTags, "tags" \in inputFocus, ch)
                   ELSE editTags
    /\ UNCHANGED <<storeVars, layoutVars, filterVars, timelineVars, scrollVars, facetVars,
                   pickVars, inputFocus, editField, editTargetID, replyParentID, status,
                   pending, crashed>>
    /\ UNCHANGED <<pomodoroVars, toolVars, modalVars>>

\* case "ctrl+enter", and "enter" on the OK button: an empty text saves nothing;
\* otherwise the reply is inserted or the target updated, the statement may
\* fail, and the timeline is reloaded either way.  The table takes a new row
\* while its ids stay within MaxEntries
updateEditor_enter ==
    /\ editorKey("enter")
    /\ canIssue(1)
    /\ mode' = "normal"
    /\ LET text == TrimSpace(editor)
           project == TrimSpace(editProject)
           tagsCSV == TrimSpace(editTags)
       IN  IF text = <<>>
           THEN status' = "nothing to save" /\ UNCHANGED <<entries, pending>>
           ELSE /\ issue(<<timelineRequest>>)
                /\ \E failed \in BOOLEAN :
                      IF mode = "reply"
                      THEN LET out == insertReplyWithProjectTags(entries, clock, replyParentID,
                                                                 text, project, tagsCSV)
                           IN  IF failed \/ out.err
                               THEN status' = "reply failed" /\ UNCHANGED entries
                               ELSE /\ newId(entries) <= MaxEntries
                                    /\ entries' = out.ents
                                    /\ status' = "replied"
                      ELSE IF failed
                      THEN status' = "edit failed" /\ UNCHANGED entries
                      ELSE /\ entries' = updateEntryTextProjectTags(entries, editTargetID, text,
                                                                    project, tagsCSV)
                           /\ status' = "updated"
    /\ UNCHANGED <<clock, schemaFK, keyboard, focus, showSidebar, showThread, filterVars,
                   timelineVars, scrollVars, facetVars, pickVars, editVars, crashed>>
    /\ UNCHANGED <<pomodoroVars, toolVars, modalVars>>

\* ------------------------------------------------- the session that edits
\* the stores the editing session starts from: rows of this second that carry
\* a project, with the tags drawn from tagss
EditStores(n, tagss) == storesOfLen(n, MaxClock, {<<"x">>}, {<<"p">>}, tagss, {"note"})

\* the user who edits and cycles through the fields of the form, the user who
\* edits one entry after another, and the user who replies and edits
FormKeyboard == {"e", "tab", "enter", "esc"} \cup EditChars
MoveKeyboard == {"e", "enter", "up", "down"} \cup EditChars
ReplyKeyboard == {"r", "e", "enter"} \cup EditChars

InitEdit ==
    \/ initSession(EditStores(MaxEntries - 1, {NULL, <<"a">>}), {FALSE}, {FormKeyboard})
    \/ initSession(EditStores(MaxEntries - 1, {<<"a">>}), {FALSE}, {MoveKeyboard})
    \/ initSession(EditStores(MaxEntries - 2, {<<"a">>}), {FALSE}, {ReplyKeyboard})

NextEdit ==
    \/ \E i \in 1..MaxInflight : runCmd(i)
    \/ \E i \in 1..MaxInflight : Update_blocksLoadedMsg(i)
    \/ \E i \in 1..MaxInflight : Update_facetsLoadedMsg(i)
    \/ updateNormal_up
    \/ updateNormal_down
    \/ updateNormal_r
    \/ updateNormal_e
    \/ updateEditor_esc
    \/ updateEditor_tab
    \/ \E ch \in EditChars : updateEditor_rune(ch)
    \/ updateEditor_enter

SpecEdit == InitEdit /\ [][NextEdit]_vars

\* C3: confirming an edit of entry E leaves the stored project, tags and
\* category of E as they were before the edit, for every entry, after any
\* earlier reply and edit sessions, and whatever keys went to the project and
\* tags fields of the form (the text is the only field the user can change)
C3_EditKeepsProjectTagsCategory ==
    [][(mode = "edit" /\ editTargetID \in Ids(entries) /\ updateEditor_enter) =>
          /\ entries'[editTargetID].project = entries[editTargetID].project
          /\ entries'[editTargetID].tags = entries[editTargetID].tags
          /\ entries'[editTargetID].category = entries[editTargetID].category]_vars

\* an edit has rewritten the text of an entry that carries a project and tags,
\* in a session that had confirmed a reply before
C3_Witness ==
    /\ keyboard = ReplyKeyboard /\ Cardinality(Ids(entries)) > 1
    /\ mode = "normal" /\ status = "updated"
    /\ editTargetID \in Ids(entries)
    /\ entries[editTargetID].text = <<"x", "q">>
    /\ entries[editTargetID].project = <<"p">>
    /\ entries[editTargetID].tags = <<"a">>

\* C8: on entering the reply mode the text buffer is empty and the project and
\* tags buffers hold the project and the tags of the parent; on entering the edit
\* mode the three buffers hold the text, the project and the tags of the target
\* (read here from the entry under the cursor, as the handler reads them)
C8_BuffersPrepopulated ==
    [][/\ (updateNormal_r /\ mode' = "reply") =>
             /\ editor' = <<>>
             /\ editProject' = cursorEntryOf.project
             /\ editTags' = Join(cursorEntryOf.tags, <<",", " ">>)
       /\ (updateNormal_e /\ mode' = "edit") =>
             /\ editor' = cursorEntryOf.text
             /\ editProject' = cursorEntryOf.project
             /\ editTags' = Join(cursorEntryOf.tags, <<",", " ">>)]_vars

\* ------------------------------------------------ the session that deletes
\* the user who deletes and edits the entry under the cursor, over stores of one
\* or two rows, with and without the foreign keys of the schema
DeleteKeyboard == {"d", "e", "enter", "esc", "down", "up"}

InitDelete ==
    initSession(UNION {EditStores(k, {NULL}) : k \in 1..(MaxEntries - 1)}, {FALSE, TRUE},
                {DeleteKeyboard})

NextDelete ==
    \/ \E i \in 1..MaxInflight : runCmd(i)
    \/ \E i \in 1..MaxInflight : Update_blocksLoadedMsg(i)
    \/ \E i \in 1..MaxInflight : Update_facetsLoadedMsg(i)
    \/ updateNormal_up
    \/ updateNormal_down
    \/ updateNormal_d
    \/ updateNormal_e
    \/ updateEditor_esc
    \/ updateEditor_enter

SpecDelete == InitDelete /\ [][NextDelete]_vars

\* C11: a delete or a confirmed edit of an id that the store does not hold
\* changes no row and tells the user so: the status it leaves is not the
\* message of a delete or an edit that was done
C11_MissingIdIsReported ==
    [][/\ (updateNormal_d /\ blocks # <<>> /\ cursorInRange
              /\ cursorEntryOf.id \notin Ids(entries)) =>
             /\ entries' = entries
             /\ status' # "Deleted entry"
       /\ (mode = "edit" /\ updateEditor_enter /\ TrimSpace(editor) # <<>>
              /\ editTargetID \notin Ids(entries)) =>
             /\ entries' = entries
             /\ status' # "updated"]_vars

\* C12 as stated: after the root of a thread was deleted while replies with its
\* id as thread_id remain, loadBlocks returns no block for that root
C12_NoBlockForDeletedRoot ==
    \A k \in 1..Len(blocks) : blocks[k].rootID \in Ids(entries)

\* C12 amended: a reply whose thread_id names a deleted root (left so by a store
\* without the foreign keys) and that matches the filter brings a block for that
\* root, and the block holds the replies that remain of the thread
C12_OrphanedRepliesKeepTheirBlock ==
    (pending = <<>> /\ status # "load error") =>
        \A i \in Ids(entries) :
            LET r == entries[i].thread_id
            IN  (/\ r # 0 /\ r \notin Ids(entries)
                 /\ matchesFilter(entries[i], scopeFrom(scope, clock, sinceValue), filterText,
                                  filterProj, filterCat, filterTags, anyTags)) =>
                    \E k \in 1..Len(blocks) :
                        /\ blocks[k].rootID = r
                        /\ {blocks[k].entries[j].id : j \in 1..Len(blocks[k].entries)}
                               = {j \in Ids(entries) : entries[j].thread_id = r}

\* a loaded timeline with a block of two replies whose root is gone
C12_Witness ==
    /\ pending = <<>> /\ status # "load error"
    /\ \E k \in 1..Len(blocks) :
          /\ blocks[k].rootID \notin Ids(entries)
          /\ Len(blocks[k].entries) = 2

\* C13: with the scope today and no other filter, an entry written at the first
\* second of today is in the loaded blocks, and an entry written at the last
\* second of the day before is in them only as a member of a thread that has an
\* entry of today
C13_TodayBoundary ==
    (pending = <<>> /\ status # "load error" /\ scope = "today" /\ filterText = <<>>) =>
        LET shown == UNION {{blocks[k].entries[j].id : j \in 1..Len(blocks[k].entries)} :
                               k \in 1..Len(blocks)}
            today == StartOfDay(clock)
        IN  \A i \in Ids(entries) :
                /\ entries[i].ts = today => i \in shown
                /\ (entries[i].ts = today - 1 /\ i \in shown) =>
                      \E j \in Ids(entries) :
                          /\ rootOf(entries, j) = rootOf(entries, i)
                          /\ entries[j].ts >= today

\* ------------------------------------------------------ views and the wheel
\* case "v": the next of the four views (Timeline, Cards, Table, Kanban)
updateNormal_v ==
    /\ normalKey("v")
    /\ viewMode' = (viewMode + 1) % 4
    /\ status' = "View"
    /\ UNCHANGED <<storeVars, layoutVars, filterVars, timelineVars, timelineScrollOffset,
                   cardsScrollOffset, tableScrollOffset, kanbanScrollOffset, height, facetVars,
                   pickVars, editVars, pending, crashed>>
    /\ UNCHANGED <<pomodoroVars, toolVars, modalVars>>

\* the kanban view shows at most this many columns at once
KanbanColumns == 4

\* the columns of the kanban view: the categories of the loaded entries
kanbanCategories(bs) ==
    UNION {{IF bs[k].entries[j].cat = "" THEN "Uncategorized" ELSE bs[k].entries[j].cat :
               j \in 1..Len(bs[k].entries)} : k \in 1..Len(bs)}

\* maxScroll of the kanban view
kanbanMaxScroll(bs) ==
    LET n == Cardinality(kanbanCategories(bs))
        numColumns == IF Min2(n, KanbanColumns) = 0 THEN 1 ELSE Min2(n, KanbanColumns)
    IN  Max2(0, n - numColumns)

\* the wheel over the timeline pane moves the offset of the view shown
wheelScrolls == focus = "timeline" /\ blocks # <<>>

\* updateMouse, case tea.MouseWheelUp in the normal mode: the offset of the view
\* shown goes up by one; elsewhere the wheel is the up key
updateMouse_WheelUp ==
    /\ normalKey("wheelup")
    /\ IF wheelScrolls
       THEN /\ timelineScrollOffset' =
                  IF viewMode = 0 THEN Max2(0, timelineScrollOffset - 1) ELSE timelineScrollOffset
            /\ cardsScrollOffset' =
                  IF viewMode = 1 THEN Max2(0, cardsScrollOffset - 1) ELSE cardsScrollOffset
            /\ tableScrollOffset' =
                  IF viewMode = 2 THEN Max2(0, tableScrollOffset - 1) ELSE tableScrollOffset
            /\ kanbanScrollOffset' =
                  IF viewMode = 3 THEN Max2(0, kanbanScrollOffset - 1) ELSE kanbanScrollOffset
            /\ UNCHANGED <<storeVars, layoutVars, filterVars, timelineVars, viewMode, height,
                           facetVars, pickVars, editVars, status, pending, crashed>>
       ELSE updateNormal_up
    /\ UNCHANGED <<pomodoroVars, toolVars, modalVars>>

\* updateMouse, case tea.MouseWheelDown in the normal mode: the offset of the view
\* shown goes down by one, up to the last full window; elsewhere the wheel is
\* the down key
updateMouse_WheelDown ==
    /\ normalKey("wheeldown")
    /\ IF wheelScrolls
       THEN /\ timelineScrollOffset' =
                  IF viewMode = 0
                  THEN Min2(Max2(0, Len(blocks) - maxVisibleBlocks(height)),
                            timelineScrollOffset + 1)
                  ELSE timelineScrollOffset
            /\ cardsScrollOffset' =
                  IF viewMode = 1
                  THEN Min2(Max2(0, totalEntries(blocks) - maxVisibleCards(height)),
                            cardsScrollOffset + 1)
                  ELSE cardsScrollOffset
            /\ tableScrollOffset' =
                  IF viewMode = 2
                  THEN Min2(Max2(0, totalEntries(blocks) - maxVisibleRows(height)),
                            tableScrollOffset + 1)
                  ELSE tableScrollOffset
            /\ kanbanScrollOffset' =
                  IF viewMode = 3 THEN Min2(kanbanMaxScroll(blocks), kanbanScrollOffset + 1)
                  ELSE kanbanScrollOffset
            /\ UNCHANGED <<storeVars, layoutVars, filterVars, timelineVars, viewMode, height,
                           facetVars, pickVars, editVars, status, pending, crashed>>
       ELSE updateNormal_down
    /\ UNCHANGED <<pomodoroVars, toolVars, modalVars>>

\* --------------------------------------------- the session that changes views
\* the user who turns the wheel and the user who pages, both moving the cursor
\* and switching views, over the stores of MaxEntries rows
WheelKeyboard == {"up", "down", "v", "wheelup", "wheeldown"}
PageKeyboard == {"up", "down", "v", "pgup", "pgdown", "home", "end"}

InitView ==
    initSession(storesOfLen(MaxEntries, DayLen, {<<"x">>}, {NULL}, {NULL}, {"note"}), {FALSE},
                {WheelKeyboard, PageKeyboard})

NextView ==
    \/ \E i \in 1..MaxInflight : runCmd(i)
    \/ \E i \in 1..MaxInflight : Update_blocksLoadedMsg(i)
    \/ \E i \in 1..MaxInflight : Update_facetsLoadedMsg(i)
    \/ updateNormal_up
    \/ updateNormal_down
    \/ updateNormal_pgup
    \/ updateNormal_pgdown
    \/ updateNormal_home
    \/ updateNormal_end
    \/ updateNormal_v
    \/ updateMouse_WheelUp
    \/ updateMouse_WheelDown
    \/ Update_WindowSizeMsg

SpecView == InitView /\ [][NextView]_vars

\* the cursor's position, the scroll offset and the window size of a view: blocks
\* in the timeline view, entries in the cards and the table view
viewPosition(v, bs, cb, ce) == IF v = 0 THEN cb ELSE flatIndex(bs, cb, ce)
viewOffset(v, tOff, cOff, rOff) == IF v = 0 THEN tOff ELSE IF v = 1 THEN cOff ELSE rOff
viewWindow(v, h) ==
    IF v = 0 THEN maxVisibleBlocks(h) ELSE IF v = 1 THEN maxVisibleCards(h)
    ELSE maxVisibleRows(h)

\* C14: in the normal mode with the focus on the timeline, after every up or
\* down movement the cursor's position is inside the window of the view shown:
\* offset <= position < offset + window size (stated for the timeline, the cards
\* and the table view, the views whose offset counts what the cursor walks)
C14_CursorInsideWindow ==
    [][((updateNormal_up \/ updateNormal_down)
            /\ focus = "timeline" /\ blocks # <<>> /\ viewMode < 3) =>
          LET pos == viewPosition(viewMode, blocks, cursorBlock', cursorEntry')
              off == viewOffset(viewMode, timelineScrollOffset', cardsScrollOffset',
                                tableScrollOffset')
          IN  off <= pos /\ pos < off + viewWindow(viewMode, height)]_vars

\* the key and mouse events of the view session
viewInput ==
    \/ updateNormal_up \/ updateNormal_down
    \/ updateNormal_pgup \/ updateNormal_pgdown
    \/ updateNormal_home \/ updateNormal_end
    \/ updateNormal_v
    \/ updateMouse_WheelUp \/ updateMouse_WheelDown

\* C15: the four view modes keep independent scroll offsets: an input event
\* handled while view mode v is shown changes at most the scroll offset of v
C15_OffsetsIndependent ==
    [][viewInput =>
          /\ viewMode # 0 => timelineScrollOffset' = timelineScrollOffset
          /\ viewMode # 1 => cardsScrollOffset' = cardsScrollOffset
          /\ viewMode # 2 => tableScrollOffset' = tableScrollOffset
          /\ viewMode # 3 => kanbanScrollOffset' = kanbanScrollOffset]_vars

\* ------------------------------------------------------------ focus panes
\* case "right", "l": the kanban view scrolls one column; every other view opens
\* the sidebar and focuses it, or closes it when it is open and focused
updateNormal_right ==
    /\ normalKey("right")
    /\ IF viewMode = 3 /\ focus = "timeline"
       THEN /\ kanbanScrollOffset' = Min2(kanbanMaxScroll(blocks), kanbanScrollOffset + 1)
            /\ status' = IF Cardinality(kanbanCategories(blocks)) > KanbanColumns
                         THEN "Kanban" ELSE status
            /\ UNCHANGED <<focus, showSidebar>>
       ELSE /\ IF focus = "sidebar" /\ showSidebar
               THEN showSidebar' = FALSE /\ focus' = "timeline"
               ELSE showSidebar' = TRUE /\ focus' = "sidebar"
            /\ UNCHANGED <<kanbanScrollOffset, status>>
    /\ UNCHANGED <<storeVars, mode, showThread, filterVars, timelineVars, viewMode,
                   timelineScrollOffset, cardsScrollOffset, tableScrollOffset, height,
                   facetVars, pickVars, editVars, pending, crashed>>
    /\ UNCHANGED <<pomodoroVars, toolVars, modalVars>>

\* case "left", "h": the same for the thread panel
updateNormal_left ==
    /\ normalKey("left")
    /\ IF viewMode = 3 /\ focus = "timeline"
       THEN /\ kanbanScrollOffset' = Max2(0, kanbanScrollOffset - 1)
            /\ status' = IF Cardinality(kanbanCategories(blocks)) > KanbanColumns
                         THEN "Kanban" ELSE status
            /\ UNCHANGED <<focus, showThread>>
       ELSE /\ IF focus = "thread" /\ showThread
               THEN showThread' = FALSE /\ focus' = "timeline"
               ELSE showThread' = TRUE /\ focus' = "thread"
            /\ UNCHANGED <<kanbanScrollOffset, status>>
    /\ UNCHANGED <<storeVars, mode, showSidebar, filterVars, timelineVars, viewMode,
                   timelineScrollOffset, cardsScrollOffset, tableScrollOffset, height,
                   facetVars, pickVars, editVars, pending, crashed>>
    /\ UNCHANGED <<pomodoroVars, toolVars, modalVars>>

\* case "enter": the thread under the cursor is opened in the thread panel
updateNormal_enter ==
    /\ normalKey("enter")
    /\ IF blocks = <<>>
       THEN UNCHANGED <<focus, showThread, threadBlock, crashed>>
       ELSE IF cursorBlock < 0 \/ cursorBlock >= Len(blocks)
       THEN crashed' = TRUE /\ UNCHANGED <<focus, showThread, threadBlock>>
       ELSE /\ threadBlock' = blocks[cursorBlock + 1]
            /\ showThread' = TRUE
            /\ focus' = "thread"
            /\ UNCHANGED crashed
    /\ UNCHANGED <<storeVars, mode, showSidebar, filterVars, blocks, cursorBlock, cursorEntry,
                   scrollVars, facetVars, pickVars, editVars, status, pending>>
    /\ UNCHANGED <<pomodoroVars, toolVars, modalVars>>

\* case "ctrl+b": the sidebar is shown or hidden, the focus stays
updateNormal_ctrl_b ==
    /\ normalKey("ctrl+b")
    /\ showSidebar' = ~showSidebar
    /\ status' = IF showSidebar' THEN "Sidebar opened" ELSE "Sidebar closed"
    /\ UNCHANGED <<storeVars, mode, focus, showThread, filterVars, timelineVars, scrollVars,
                   facetVars, pickVars, editVars, pending, crashed>>
    /\ UNCHANGED <<pomodoroVars, toolVars, modalVars>>

PaneKeyboard == {"tab", "right", "left", "enter", "ctrl+b"}
ColumnKeyboard == {"tab", "right", "left", "v"}

InitFocus ==
    initSession(storesOfLen(MaxEntries, DayLen, {<<"x">>}, {NULL}, {NULL}, {"note"}),
                {FALSE}, {PaneKeyboard, ColumnKeyboard})

NextFocus ==
    \/ \E i \in 1..MaxInflight : runCmd(i)
    \/ \E i \in 1..MaxInflight : Update_blocksLoadedMsg(i)
    \/ \E i \in 1..MaxInflight : Update_facetsLoadedMsg(i)
    \/ cycleFocus
    \/ updateNormal_right
    \/ updateNormal_left
    \/ updateNormal_enter
    \/ updateNormal_ctrl_b
    \/ updateNormal_v

SpecFocus == InitFocus /\ [][NextFocus]_vars

\* the panes after p in the cycling order Timeline, Sidebar, Thread
paneAfter(p) == IF p = "timeline" THEN "sidebar" ELSE IF p = "sidebar" THEN "thread" ELSE "timeline"
paneVisible(p) == p = "timeline" \/ (p = "sidebar" /\ showSidebar) \/ (p = "thread" /\ showThread)
nextVisiblePane(p) ==
    IF paneVisible(paneAfter(p)) THEN paneAfter(p)
    ELSE IF paneVisible(paneAfter(paneAfter(p))) THEN paneAfter(paneAfter(p))
    ELSE "timeline"

\* C16: cycling the focus moves it to the next visible pane in the order
\* Timeline, Sidebar, Thread, skipping the collapsed panes and wrapping back to
\* Timeline, and leaves the visibility of the sidebar and the thread unchanged
C16_CycleAmongVisiblePanes ==
    [][cycleFocus =>
          /\ focus' = nextVisiblePane(focus)
          /\ showSidebar' = showSidebar
          /\ showThread' = showThread]_vars

\* C17: the session state has one writer and no concurrent reader: no reload in
\* flight reads what a handler writes, so a reload dispatched and not yet run
\* keeps the filter values it was issued with while the picker or the sidebar
\* changes the filters of the session
C17_ReloadKeepsIssuedFilters ==
    [][(updatePicker_enter \/ updateNormal_space) =>
          \A k \in 1..Len(pending) :
              /\ pending'[k].sc = pending[k].sc
              /\ pending'[k].since = pending[k].since
              /\ pending'[k].text = pending[k].text
              /\ pending'[k].proj = pending[k].proj
              /\ pending'[k].cat = pending[k].cat
              /\ pending'[k].any = pending[k].any
              /\ pending'[k].tagSet = pending[k].tagSet]_vars

\* ---------------------------------------------------------- the countdown
\* the durations New gives the sessions, and the long break, in seconds
workSessionTime == 1500
breakSessionTime == 300
LongBreakTime == 900
\* the work sessions after which the break is a long one
LongBreakAfter == 4
pomodoroAutoLog == TRUE
pomodoroLongBreakEnabled == TRUE

\* createPomodoroLogEntry: INSERT INTO entries(category, text, ts, duration_minutes)
createPomodoroLogEntry(ents, now, sessionType) ==
    insertRow(ents, [ts |-> now, category |-> "timer", text |-> <<sessionType>>,
                     project |-> NULL, tags |-> NULL, thread_id |-> 0, parent_id |-> 0])

\* case "P": the countdown is started with a work session, and a timer of
\* pomodoroTickMsg with it, or stopped
updateNormal_P ==
    /\ normalKey("P")
    /\ pomodoroActive' = ~pomodoroActive
    /\ IF pomodoroActive'
       THEN /\ pomodoroTicks < MaxTicks
            /\ pomodoroSession' = 0
            /\ pomodoroTimeLeft' = workSessionTime
            /\ status' = "Pomodoro Timer Started"
            /\ pomodoroTicks' = pomodoroTicks + 1
       ELSE /\ status' = "Pomodoro Timer Stopped"
            /\ UNCHANGED <<pomodoroSession, pomodoroTimeLeft, pomodoroTicks>>
    /\ UNCHANGED <<storeVars, layoutVars, filterVars, timelineVars, scrollVars, facetVars,
                   pickVars, editVars, pomodoroWorkSessions, pomodoroTotalTime,
                   pomodoroSessionsCount, pending, crashed>>
    /\ UNCHANGED <<toolVars, modalVars>>

\* a handler that lets the countdown run below zero
pomodoroTickStepNoSwitch(left, session, work, total, count, st) ==
    [left |-> left - 1, session |-> session, work |-> work, total |-> total,
     count |-> count, status |-> st, log |-> ""]

\* what the handler of pomodoroTickMsg writes: [active, left, session, work, total,
\* count, status, log], log the session a log entry is written for, or ""
pomodoroTickStep(left, session, work, total, count, st) ==
    LET l == left - 1
        long == pomodoroLongBreakEnabled /\ count + 1 >= LongBreakAfter
    IN  IF l > 0
        THEN [left |-> l, session |-> session, work |-> work, total |-> total,
              count |-> count, status |-> st, log |-> ""]
        ELSE IF session = 0
        THEN [left |-> IF long THEN LongBreakTime ELSE breakSessionTime,
              session |-> 1, work |-> work + 1, total |-> total + workSessionTime,
              count |-> IF long THEN 0 ELSE count + 1,
              status |-> IF long THEN "Work session completed! Time for a long break"
                         ELSE "Work session completed! Time for a break",
              log |-> IF pomodoroAutoLog THEN "work" ELSE ""]
        ELSE [left |-> workSessionTime, session |-> 0, work |-> work, total |-> total,
              count |-> count, status |-> "Break completed! Back to work",
              log |-> IF pomodoroAutoLog THEN "break" ELSE ""]

\* case pomodoroTickMsg: a running countdown loses a second and the timer is set
\* again; at zero the session is over and the other one begins.  With no
\* countdown running the timer is not set again.
Update_pomodoroTickMsg ==
    /\ ~crashed
    /\ pomodoroTicks > 0
    /\ IF pomodoroActive
       THEN LET r == pomodoroTickStep(pomodoroTimeLeft, pomodoroSession, pomodoroWorkSessions,
                                      pomodoroTotalTime, pomodoroSessionsCount, status)
            IN  /\ r.work <= MaxWorkSessions
                /\ pomodoroTimeLeft' = r.left
                /\ pomodoroSession' = r.session
                /\ pomodoroWorkSessions' = r.work
                /\ pomodoroTotalTime' = r.total
                /\ pomodoroSessionsCount' = r.count
                /\ status' = r.status
                /\ entries' = IF r.log = "" THEN entries
                              ELSE createPomodoroLogEntry(entries, clock, r.log)
                /\ UNCHANGED <<pomodoroActive, pomodoroTicks>>
       ELSE /\ pomodoroTicks' = pomodoroTicks - 1
            /\ UNCHANGED <<entries, status, pomodoroActive, pomodoroTimeLeft, pomodoroSession,
                           pomodoroWorkSessions, pomodoroTotalTime, pomodoroSessionsCount>>
    /\ UNCHANGED <<clock, schemaFK, keyboard, layoutVars, filterVars, timelineVars, scrollVars,
                   facetVars, pickVars, editVars, pending, crashed>>
    /\ UNCHANGED <<toolVars, modalVars>>

PomodoroKeyboard == {"P"}

InitPomodoro == initSession({<<>>}, {FALSE}, {PomodoroKeyboard})

NextPomodoro ==
    \/ updateNormal_P
    \/ Update_pomodoroTickMsg

SpecPomodoro == InitPomodoro /\ [][NextPomodoro]_vars

\* the time a session lasts: a work session workSessionTime, a break
\* breakSessionTime, or LongBreakTime after the fourth work session in a row
sessionDuration(session, long) ==
    IF session = 0 THEN workSessionTime
    ELSE IF long THEN LongBreakTime ELSE breakSessionTime

\* C18: while a countdown is running every pomodoroTickMsg takes exactly one
\* second off the time left; when the time left reaches zero the session
\* switches (work to break, break to work) and the time left becomes the
\* duration of the new session; with no countdown running the message changes
\* nothing of the session
C18_CountdownTick ==
    [][Update_pomodoroTickMsg =>
          IF ~pomodoroActive
          THEN UNCHANGED <<storeVars, layoutVars, filterVars, timelineVars, scrollVars,
                           facetVars, pickVars, editVars, status, pending, crashed,
                           pomodoroActive, pomodoroTimeLeft, pomodoroSession,
                           pomodoroWorkSessions, pomodoroTotalTime, pomodoroSessionsCount>>
          ELSE IF pomodoroTimeLeft - 1 > 0
          THEN /\ pomodoroTimeLeft' = pomodoroTimeLeft - 1
               /\ pomodoroSession' = pomodoroSession
               /\ pomodoroActive'
          ELSE /\ pomodoroSession' = 1 - pomodoroSession
               /\ pomodoroTimeLeft' =
                      sessionDuration(pomodoroSession',
                                      pomodoroSessionsCount + 1 >= LongBreakAfter)
               /\ pomodoroActive']_vars

\* a countdown has run through four work sessions and begun the long break
C18_Witness ==
    /\ pomodoroActive /\ pomodoroSession = 1 /\ pomodoroTimeLeft = LongBreakTime
    /\ pomodoroWorkSessions = LongBreakAfter

\* ------------------------------------------------------------- the replies
\* the user who moves to an entry and replies to it, over the stores of two rows,
\* the second one a root or a reply to the first: rows with and without a
\* project under a category written with a capital, and rows with and without
\* tags under the category note
AnswerKeyboard == {"r", "enter", "down"} \cup EditChars

InitReply ==
    \/ initSession(storesOfLen(MaxEntries - 1, MaxClock, {<<"x">>}, {NULL, <<"p">>},
                               {<<"a">>}, {"Task"}),
                   {FALSE}, {AnswerKeyboard})
    \/ initSession(storesOfLen(MaxEntries - 1, MaxClock, {<<"x">>}, {<<"p">>},
                               {NULL, <<"a">>}, {"note"}),
                   {FALSE}, {AnswerKeyboard})

NextReply ==
    \/ \E i \in 1..MaxInflight : runCmd(i)
    \/ \E i \in 1..MaxInflight : Update_blocksLoadedMsg(i)
    \/ \E i \in 1..MaxInflight : Update_facetsLoadedMsg(i)
    \/ updateNormal_down
    \/ updateNormal_r
    \/ \E ch \in EditChars : updateEditor_rune(ch)
    \/ updateEditor_enter

SpecReply == InitReply /\ [][NextReply]_vars

\* a step that confirms the reply form and stores a reply
replyStored == mode = "reply" /\ updateEditor_enter /\ entries' # entries

\* the reply stored by the step: one new row, the rows there were untouched, in
\* the thread of the parent P (P's thread_id when set, else P's id), with P as
\* its parent
replyJoinsThread ==
    LET P == entries[replyParentID]
        n == newId(entries)
    IN  /\ Ids(entries') = Ids(entries) \cup {n}
        /\ \A i \in Ids(entries) : entries'[i] = entries[i]
        /\ entries'[n].thread_id = (IF P.thread_id # 0 THEN P.thread_id ELSE replyParentID)
        /\ entries'[n].parent_id = replyParentID

C20_EmptyOverrideInheritsParent ==
    [][replyStored =>
          LET P == entries[replyParentID]
              reply == entries'[newId(entries)]
          IN  /\ TrimSpace(editProject) = <<>> => reply.project = P.project
              /\ TrimSpace(editTags) = <<>> => reply.tags = P.tags]_vars

\* the reply to an entry of project p with tags a has been stored with both,
\* next to an entry that has no project or no tags
C20_Witness ==
    /\ status = "replied" /\ Len(entries) = MaxEntries
    /\ entries[MaxEntries].project = <<"p">> /\ entries[MaxEntries].tags = <<"a">>
    /\ \E i \in Ids(entries) : entries[i].project = NULL \/ entries[i].tags = NULL

\* ------------------------------------------------------- the tag filter
\* loadBlocks applied once to the stores of MaxEntries rows tagged a, b, "a,b" or
\* ab, under a filter of one or both of the tags a and b, with all of them or
\* any of them asked for
TagLabels == {<<"a">>, <<"b">>, <<"a", ",", "b">>, <<"a", "b">>}
TagChoices == {<<"a">>, <<"b">>}

InitTags ==
    /\ schemaFK = FALSE
    /\ keyboard = {}
    /\ clock = MaxClock
    /\ entries \in storesOfLen(MaxEntries, MaxClock, {<<"x">>}, {NULL}, TagLabels, {"note"})
    /\ mode = "normal" /\ focus = "timeline" /\ showSidebar = FALSE /\ showThread = FALSE
    /\ scope = "all" /\ sinceValue = <<>> /\ sinceInput = <<>>
    /\ filterText = <<>> /\ filterProj = <<>> /\ filterCat = ""
    /\ filterTags \in (SUBSET TagChoices) \ {{}}
    /\ anyTags \in BOOLEAN
    /\ blocks = <<>> /\ cursorBlock = 0 /\ cursorEntry = 0 /\ threadBlock = emptyBlock
    /\ viewMode = 0 /\ timelineScrollOffset = 0 /\ cardsScrollOffset = 0
    /\ tableScrollOffset = 0 /\ kanbanScrollOffset = 0 /\ height = 0
    /\ projects = <<>> /\ categories = <<>> /\ tags = <<>>
    /\ activePicker = "" /\ pickerCursor = 0 /\ sidebarSection = 0 /\ sidebarCursor = 0
    /\ projectSummaryData = <<>> /\ analyticsCursor = 0
    /\ editor = <<>> /\ editProject = <<>> /\ editTags = <<>> /\ editField = 0
    /\ inputFocus = {}
    /\ editTargetID = 0 /\ replyParentID = 0
    /\ status = ""
    /\ pomodoroActive = FALSE /\ pomodoroTimeLeft = 0 /\ pomodoroSession = 0
    /\ pomodoroWorkSessions = 0 /\ pomodoroTotalTime = 0 /\ pomodoroSessionsCount = 0
    /\ pomodoroTicks = 0
    /\ focusMode = FALSE /\ calendarPreviewMode = FALSE /\ quitting = FALSE
    /\ cli = [p \in 1..MaxProcs |-> idleProc] /\ reminder = noReminder /\ listing = noListing
    /\ pending = <<timelineRequest>>
    /\ crashed = FALSE

NextTags ==
    \/ \E i \in 1..MaxInflight : runCmd(i)
    \/ \E i \in 1..MaxInflight : Update_blocksLoadedMsg(i)

SpecTags == InitTags /\ [][NextTags]_vars

\* the tags an entry carries, and whether it carries all, or any, of the chosen ones
tagsOf(row) == Range(splitTags(Coalesce(row.tags, <<>>)))
carriesTags(row, chosen, any) ==
    IF any THEN \E t \in chosen : t \in tagsOf(row)
    ELSE \A t \in chosen : t \in tagsOf(row)

\* the timeline of the filter has been loaded
tagsLoaded == pending = <<>> /\ status # "load error"

\* C21: under a tag filter the threads listed are those with an entry that
\* carries every chosen tag (AND), or at least one of them (OR): of entries
\* tagged a, b and "a,b", the filter {a, b} lists the third alone under AND and
\* all three under OR
C21_TagFilterSemantics ==
    tagsLoaded =>
        {blocks[k].rootID : k \in 1..Len(blocks)}
            = {rootOf(entries, i) : i \in {j \in Ids(entries) :
                                               carriesTags(entries[j], filterTags, anyTags)}}

\* ------------------------------------------------------------ the pickers
\* the user of the three pickers over a store of two projects, two categories
\* and two tags
PickerStores ==
    {<<[ts |-> MaxClock, category |-> "note", text |-> <<"x">>, project |-> <<"p">>,
        tags |-> <<"a">>, thread_id |-> 0, parent_id |-> 0],
       [ts |-> MaxClock, category |-> "Task", text |-> <<"x">>, project |-> <<"q">>,
        tags |-> <<"b">>, thread_id |-> 0, parent_id |-> 0]>>}

InitPicker == initSession(PickerStores, {FALSE}, {PickerKeyboard})

NextPicker ==
    \/ \E i \in 1..MaxInflight : runCmd(i)
    \/ \E i \in 1..MaxInflight : Update_blocksLoadedMsg(i)
    \/ \E i \in 1..MaxInflight : Update_facetsLoadedMsg(i)
    \/ \E k \in {"p", "c", "#"} : updateNormal_picker(k)
    \/ updatePicker_esc
    \/ updatePicker_up
    \/ updatePicker_down
    \/ updatePicker_enter

SpecPicker == InitPicker /\ [][NextPicker]_vars

\* the labels of the picker that is open, and the filters of the session
pickerLabels ==
    LET list == IF activePicker = "projects" THEN projects
                ELSE IF activePicker = "categories" THEN categories ELSE tags
    IN  {list[k].name : k \in 1..Len(list)}
sessionFilters == [proj |-> filterProj, cat |-> filterCat, tagSet |-> filterTags]

\* what one confirm of the label n does to the filters f: a chosen label is
\* cleared; a tag not chosen joins the chosen tags; a project or a category not
\* chosen takes the place of the one that was
confirmToggles(n, f, once) ==
    CASE activePicker = "projects" ->
            /\ once.proj = (IF f.proj = n THEN <<>> ELSE n)
            /\ once.cat = f.cat /\ once.tagSet = f.tagSet
      [] activePicker = "categories" ->
            /\ once.cat = (IF f.cat = ToLower(n) THEN "" ELSE ToLower(n))
            /\ once.proj = f.proj /\ once.tagSet = f.tagSet
      [] OTHER ->
            /\ once.tagSet = (IF n \in f.tagSet THEN f.tagSet \ {n} ELSE f.tagSet \cup {n})
            /\ once.proj = f.proj /\ once.cat = f.cat

\* C22 as stated: picker confirm toggles the label; confirming the same label
\* twice in a row restores the filters there were; tags accumulate in a set, a
\* different project or category replaces the one chosen before
C22_ConfirmTwiceRestores ==
    mode = "picker" =>
        \A n \in pickerLabels :
            LET once == pickerConfirm(activePicker, n, sessionFilters)
                twice == pickerConfirm(activePicker, n, once)
            IN  /\ confirmToggles(n, sessionFilters, once)
                /\ twice = sessionFilters

\* C22 as the code has it: the same, the second confirm restoring the filters
\* when the label is a tag, or when no other project (category) was chosen
\* before the first confirm; with another one chosen the two confirms leave the
\* project (category) filter empty
C22_ConfirmTwiceRestoresOrClears ==
    mode = "picker" =>
        \A n \in pickerLabels :
            LET once == pickerConfirm(activePicker, n, sessionFilters)
                twice == pickerConfirm(activePicker, n, once)
                other == \/ activePicker = "projects" /\ filterProj \notin {<<>>, n}
                         \/ activePicker = "categories" /\ filterCat \notin {"", ToLower(n)}
            IN  /\ confirmToggles(n, sessionFilters, once)
                /\ ~other => twice = sessionFilters
                /\ other => twice = [sessionFilters EXCEPT
                                        !.proj = IF activePicker = "projects" THEN <<>> ELSE @,
                                        !.cat = IF activePicker = "categories" THEN "" ELSE @]

\* the project picker is open with both tags and a project chosen by earlier
\* confirms, and the other project is on the list
C22_Witness ==
    /\ mode = "picker" /\ activePicker = "projects"
    /\ filterTags = {<<"a">>, <<"b">>} /\ filterProj = <<"q">>
    /\ <<"p">> \in pickerLabels

\* C23: confirming the edit or the reply form with an empty (whitespace-only)
\* text is rejected before the store is reached: nothing is inserted or
\* updated, a message is set, and the session state is otherwise unchanged
C23_EmptyTextRejected ==
    [][(updateEditor_enter /\ TrimSpace(editor) = <<>>) =>
          /\ entries' = entries
          /\ status' = "nothing to save"
          /\ UNCHANGED <<layoutVars, filterVars, timelineVars, scrollVars, facetVars,
                         pickVars, editVars, pomodoroVars, pending, crashed>>]_vars

\* ------------------------------------------------- the reply to a deleted entry
\* the user who deletes an entry and replies to it while the timeline still
\* shows it
GoneKeyboard == {"d", "r", "enter"} \cup EditChars

InitGone ==
    initSession(EditStores(MaxEntries - 2, {NULL, <<"a">>}), {FALSE}, {GoneKeyboard})

NextGone ==
    \/ \E i \in 1..MaxInflight : runCmd(i)
    \/ \E i \in 1..MaxInflight : Update_blocksLoadedMsg(i)
    \/ \E i \in 1..MaxInflight : Update_facetsLoadedMsg(i)
    \/ updateNormal_d
    \/ updateNormal_r
    \/ \E ch \in EditChars : updateEditor_rune(ch)
    \/ updateEditor_enter

SpecGone == InitGone /\ [][NextGone]_vars

\* C24: confirming a reply whose parent the store no longer holds inserts
\* nothing and leaves the message of a failure
C24_ReplyToMissingParentFails ==
    [][(mode = "reply" /\ updateEditor_enter /\ TrimSpace(editor) # <<>>
            /\ replyParentID \notin Ids(entries)) =>
          /\ entries' = entries
          /\ status' = "reply failed"]_vars

\* a reply to an entry deleted after the timeline was loaded has failed
C24_Witness ==
    /\ status = "reply failed" /\ mode = "normal"
    /\ replyParentID # 0 /\ replyParentID \notin Ids(entries)

\* the words of up to MaxText of the characters 7 and d that parseSince knows
recognisedSince(str) == TrimSpace(str) \in {<<>>, <<"7", "d">>}

\* C25: confirming in the since input a value that matches no pattern leaves an
\* error message at once and commits nothing: the scope and the since value
\* stay, the input stays open and no reload is issued
C25_BadSinceCommitsNothing ==
    [][(updateSince_enter /\ ~recognisedSince(sinceInput)) =>
          /\ status' = "invalid date"
          /\ scope' = scope /\ sinceValue' = sinceValue
          /\ mode' = "since"
          /\ pending' = pending]_vars

\* a value that is no date has been refused while a since scope was in force
C25_Witness ==
    /\ status = "invalid date" /\ mode = "since" /\ ~recognisedSince(sinceInput)
    /\ scope = "since"

\* the timeline shows one block of one entry and the cursor is on it
soleEntry ==
    /\ Len(blocks) = 1 /\ Len(blocks[1].entries) = 1
    /\ cursorBlock = 0 /\ cursorEntry = 0

\* C26: d on the only entry of the only block removes the entry from the store
\* in the same step, without a confirmation, and issues a reload; a reload that
\* runs on the store left without entries yields no block, and when it is
\* applied the timeline has no block and cursorBlock = 0
C26_DeleteOnlyEntryThenReload ==
    [][/\ (updateNormal_d /\ soleEntry /\ status' = "Deleted entry") =>
              /\ blocks[1].entries[1].id \notin Ids(entries')
              /\ \A i \in Ids(entries') : i \in Ids(entries)
              /\ mode' = "normal"
              /\ pending' = pending \o <<timelineRequest>>
       /\ \A i \in 1..Len(pending) :
              (runCmd(i) /\ pending[i].kind = "blocks" /\ Ids(entries) = {}
                   /\ ~pending'[i].err) => pending'[i].res = <<>>
       /\ \A i \in 1..Len(pending) :
              (Update_blocksLoadedMsg(i) /\ ~pending[i].err /\ pending[i].res = <<>>) =>
                  blocks' = <<>> /\ cursorBlock' = 0 /\ cursorEntry' = 0]_vars

\* the only entry has been deleted and the reload applied: the store and the
\* timeline are empty
C26_Witness ==
    /\ status = "Deleted entry" /\ Ids(entries) = {} /\ pending = <<>>
    /\ blocks = <<>> /\ cursorBlock = 0

\* ------------------------------------------------ pulse start and pulse stop
\* strings.ReplaceAll(s, old, new), old not empty
RECURSIVE ReplaceAll(_, _, _)
ReplaceAll(s, old, new) ==
    IF Len(s) < Len(old) THEN s
    ELSE IF SubSeq(s, 1, Len(old)) = old
    THEN new \o ReplaceAll(SubSeq(s, Len(old) + 1, Len(s)), old, new)
    ELSE <<Head(s)>> \o ReplaceAll(Tail(s), old, new)

\* strings.Trim(s, cutset)
RECURSIVE TrimLeftSet(_, _)
TrimLeftSet(s, cutset) ==
    IF s # <<>> /\ Head(s) \in cutset THEN TrimLeftSet(Tail(s), cutset) ELSE s
RECURSIVE TrimRightSet(_, _)
TrimRightSet(s, cutset) ==
    IF s # <<>> /\ s[Len(s)] \in cutset
    THEN TrimRightSet(SubSeq(s, 1, Len(s) - 1), cutset) ELSE s
Trim(s, cutset) == TrimRightSet(TrimLeftSet(s, cutset), cutset)

\* the word active, one symbol of the tags column here
Active == <<"active">>

\* the rows SELECT ... WHERE category='timer' AND instr(tags,'active')>0 finds
activeTimers(ents) ==
    {i \in Ids(ents) : ents[i].category = "timer" /\ Instr(ents[i].tags, Active)}

\* the --tags values pulse start is given
StartTags == {<<>>, <<"a">>}

\* pulse start without --allow-multiple, up to its INSERT: the command ends with
\* an error when the count of the active timers is not zero
startCmd_check(p, startTags) ==
    /\ cli[p].pc = "idle"
    /\ IF activeTimers(entries) # {}
       THEN UNCHANGED cli
       ELSE cli' = [cli EXCEPT ![p] = [pc |-> "start_insert", id |-> 0,
                       tags |-> Trim(ReplaceAll(startTags \o <<",">> \o Active,
                                                <<",", ",">>, <<",">>), {",", " "})]]
    /\ UNCHANGED <<storeVars, layoutVars, filterVars, timelineVars, scrollVars, facetVars,
                   pickVars, editVars, pomodoroVars, reminder, listing, modalVars, status, pending, crashed>>

\* pulse start, its INSERT INTO entries(category, text, project, tags)
startCmd_insert(p) ==
    /\ cli[p].pc = "start_insert"
    /\ newId(entries) <= MaxEntries
    /\ entries' = insertRow(entries,
                     [ts |-> clock, category |-> "timer", text |-> <<"x">>, project |-> <<>>,
                      tags |-> cli[p].tags, thread_id |-> 0, parent_id |-> 0])
    /\ cli' = [cli EXCEPT ![p] = idleProc]
    /\ UNCHANGED <<clock, schemaFK, keyboard, layoutVars, filterVars, timelineVars, scrollVars,
                   facetVars, pickVars, editVars, pomodoroVars, reminder, listing, modalVars, status, pending, crashed>>

\* pulse stop without --id, up to its UPDATE: the active timer of the latest
\* ts is the target; with no active timer the command ends with an error
stopCmd_find(p) ==
    /\ cli[p].pc = "idle"
    /\ IF activeTimers(entries) = {}
       THEN UNCHANGED cli
       ELSE \E i \in activeTimers(entries) :
               /\ \A j \in activeTimers(entries) : entries[j].ts <= entries[i].ts
               /\ cli' = [cli EXCEPT ![p] = [pc |-> "stop_update", id |-> i,
                                             tags |-> Coalesce(entries[i].tags, <<>>)]]
    /\ UNCHANGED <<storeVars, layoutVars, filterVars, timelineVars, scrollVars, facetVars,
                   pickVars, editVars, pomodoroVars, reminder, listing, modalVars, status, pending, crashed>>

\* pulse stop, its UPDATE entries SET duration_minutes=?, tags=?, text=? WHERE id=?
stopCmd_update(p) ==
    /\ cli[p].pc = "stop_update"
    /\ entries' = [i \in Ids(entries) |->
                      IF i # cli[p].id THEN entries[i]
                      ELSE [entries[i] EXCEPT
                               !.tags = Trim(ReplaceAll(ReplaceAll(cli[p].tags, Active, <<>>),
                                                        <<",", ",">>, <<",">>), {",", " "})]]
    /\ cli' = [cli EXCEPT ![p] = idleProc]
    /\ UNCHANGED <<clock, schemaFK, keyboard, layoutVars, filterVars, timelineVars, scrollVars,
                   facetVars, pickVars, editVars, pomodoroVars, reminder, listing, modalVars, status, pending, crashed>>

InitTimer == initSession({<<>>}, {FALSE}, {{}})

NextTimer ==
    \/ \E p \in 1..MaxProcs : \E t \in StartTags : startCmd_check(p, t)
    \/ \E p \in 1..MaxProcs : startCmd_insert(p)
    \/ \E p \in 1..MaxProcs : stopCmd_find(p)
    \/ \E p \in 1..MaxProcs : stopCmd_update(p)

SpecTimer == InitTimer /\ [][NextTimer]_vars

\* C27: with start never given --allow-multiple at most one timer entry is
\* active at any time, whatever the interleaving of the start and the stop
\* commands, two starts running at once included
C27_SingleActiveTimer == Cardinality(activeTimers(entries)) <= 1

\* ------------------------------------------------------------ the reminder
\* Instants are counted in hours from the epoch, which a zone of offset 0 reads
\* as hour 0 of day 0; a day of the wall clock has HoursPerDay hours.

\* the zones cfg.Location() may give: one of a fixed offset, one whose clocks are
\* put forward an hour at ShiftAt, one whose clocks are put back an hour then
Zones == {"fixed", "forward", "back"}
zoneOffset(zone, t) ==
    IF zone = "fixed" \/ t < ShiftAt THEN 0 ELSE IF zone = "forward" THEN 1 ELSE -1

\* t.In(loc): the wall clock of an instant, its day, hour and weekday
wallClock(zone, t) == t + zoneOffset(zone, t)
wallDay(zone, t) == wallClock(zone, t) \div HoursPerDay
wallHour(zone, t) == wallClock(zone, t) % HoursPerDay
\* t.Weekday().String()[:3]
WeekdayNames == <<"Sun", "Mon", "Tue", "Wed", "Thu", "Fri", "Sat">>
wallWeekday(zone, t) == WeekdayNames[((wallDay(zone, t) + EpochWeekday) % 7) + 1]

\* time.Date(y, m, d, hour, 0, 0, 0, loc): the instants the zone reads as that
\* hour of that day; an hour the zone skips is read in either of the offsets
\* around the change
Date(zone, day, hour) ==
    LET wall == day * HoursPerDay + hour
        exact == {t \in (wall - 1)..(wall + 1) : wallClock(zone, t) = wall}
    IN  IF exact # {} THEN exact ELSE {wall - o : o \in {zoneOffset(zone, wall - 1),
                                                        zoneOffset(zone, wall + 1)}}

\* Default(): the reminder of a configuration that sets nothing
Default == [hour |-> DefaultHour, workdays |-> {"Mon", "Tue", "Wed", "Thu", "Fri"},
            holidays |-> {}]

isWorkday(cfg, zone, t) == wallWeekday(zone, t) \in cfg.workdays
isHoliday(cfg, zone, t) == wallDay(zone, t) \in cfg.holidays

\* the loop of NextAt: a day's worth of hours is added until the candidate is on
\* a workday that is no holiday
RECURSIVE nextFrom(_, _, _)
nextFrom(cfg, zone, cand) ==
    IF isWorkday(cfg, zone, cand) /\ ~isHoliday(cfg, zone, cand) THEN cand
    ELSE nextFrom(cfg, zone, cand + HoursPerDay)

\* NextAt(now, cfg), for each instant time.Date may give
NextAt(now, cfg, zone) ==
    {nextFrom(cfg, zone, IF ~(now < cand) THEN cand + HoursPerDay ELSE cand) :
        cand \in Date(zone, wallDay(zone, now), cfg.hour)}

\* the configurations: the default one, and ones that name other workdays, an
\* hour and holidays
Configs ==
    {Default} \cup
    {[hour |-> h, workdays |-> w, holidays |-> hs] :
        h \in 0..(HoursPerDay - 1), w \in {Default.workdays, {"Sun"}, {"Sat", "Sun", "Mon"}},
        hs \in SUBSET {MaxNowDay, MaxNowDay + 1}}

\* RunConfigured: next := NextAt(time.Now(), cfg)
RunConfigured ==
    /\ reminder.next = <<>>
    /\ \E n \in NextAt(reminder.now, reminder.cfg, reminder.zone) :
          reminder' = [reminder EXCEPT !.next = <<n>>]
    /\ UNCHANGED <<storeVars, layoutVars, filterVars, timelineVars, scrollVars, facetVars,
                   pickVars, editVars, pomodoroVars, cli, listing, modalVars, status, pending, crashed>>

\* the state of a process that runs the scheduler alone, for a set of reminders
initSchedule(reminders) ==
    /\ schemaFK = FALSE
    /\ keyboard = {}
    /\ clock = MaxClock
    /\ entries = <<>>
    /\ mode = "normal" /\ focus = "timeline" /\ showSidebar = FALSE /\ showThread = FALSE
    /\ scope = "today" /\ sinceValue = <<>> /\ sinceInput = <<>>
    /\ filterText = <<>> /\ filterProj = <<>> /\ filterCat = "" /\ filterTags = {}
    /\ anyTags = FALSE
    /\ blocks = <<>> /\ cursorBlock = 0 /\ cursorEntry = 0 /\ threadBlock = emptyBlock
    /\ viewMode = 0 /\ timelineScrollOffset = 0 /\ cardsScrollOffset = 0
    /\ tableScrollOffset = 0 /\ kanbanScrollOffset = 0 /\ height = 0
    /\ projects = <<>> /\ categories = <<>> /\ tags = <<>>
    /\ activePicker = "" /\ pickerCursor = 0 /\ sidebarSection = 0 /\ sidebarCursor = 0
    /\ projectSummaryData = <<>> /\ analyticsCursor = 0
    /\ editor = <<>> /\ editProject = <<>> /\ editTags = <<>> /\ inputFocus = {}
    /\ editField = 0 /\ editTargetID = 0 /\ replyParentID = 0
    /\ pomodoroActive = FALSE /\ pomodoroTimeLeft = 0 /\ pomodoroSession = 0
    /\ pomodoroWorkSessions = 0 /\ pomodoroTotalTime = 0 /\ pomodoroSessionsCount = 0
    /\ pomodoroTicks = 0
    /\ focusMode = FALSE /\ calendarPreviewMode = FALSE /\ quitting = FALSE
    /\ cli = [p \in 1..MaxProcs |-> idleProc] /\ listing = noListing
    /\ reminder \in reminders
    /\ status = "" /\ pending = <<>> /\ crashed = FALSE

InitReminder ==
    initSchedule([now : 0..((MaxNowDay + 1) * HoursPerDay - 1), cfg : Configs, zone : Zones,
                  next : {<<>>}])

NextReminder == RunConfigured

SpecReminder == InitReminder /\ [][NextReminder]_vars

\* the instants after now at the configured hour of a configured workday that
\* is no configured holiday
occurrences(now, cfg, zone) ==
    {t \in (now + 1)..(now + Horizon) :
        /\ wallHour(zone, t) = cfg.hour
        /\ wallWeekday(zone, t) \in cfg.workdays
        /\ wallDay(zone, t) \notin cfg.holidays}

\* C28: NextAt(now, cfg) is the earliest instant strictly after now that is at
\* the configured time of day, on a configured workday and on no configured
\* holiday
C28_NextOccurrence ==
    (reminder # noReminder /\ reminder.next # <<>>) =>
        LET occ == occurrences(reminder.now, reminder.cfg, reminder.zone)
        IN  /\ reminder.next[1] \in occ
            /\ \A t \in occ : reminder.next[1] <= t

\* --------------------------------------------------------------- pulse list
\* the conditions buildListQuery appends for a comma-separated flag: one for
\* each value that is not blank, trimmed
flagValues(flag) == IF TrimSpace(flag) = <<>> THEN <<>> ELSE DropEmpty(SplitComma(flag))

\* ts BETWEEN ? AND ?, a comparison of texts
tsBetween(ts, since, until) ==
    textAtLeast(storedTs(ts), boundTs(since)) /\ textAtLeast(boundTs(until), storedTs(ts))

\* the WHERE clause of buildListQuery: its conditions joined by AND; a category
\* is one symbol of the --categories flag
listWhere(row, since, until, projFlag, catFlag) ==
    /\ tsBetween(row.ts, since, until)
    /\ \A v \in Range(flagValues(projFlag)) : row.project = v
    /\ \A v \in Range(flagValues(catFlag)) : <<row.category>> = v

\* the values --projects and --categories are given
ProjectFlags == {<<>>, <<"p">>, <<"p", ",", "q">>, <<"p", ",", " ", "p">>}
CategoryFlags == {<<>>, <<"note">>, <<"note", ",", "Task">>}

\* pulse list with no --since and no --preset: the rows of the last day up to
\* now that the WHERE clause keeps, ORDER BY ts DESC, on one page
listCmd(projFlag, catFlag) ==
    /\ LET since == clock - DayLen
           kept == {i \in Ids(entries) : listWhere(entries[i], since, clock, projFlag, catFlag)}
       IN  \E rows \in Perms(kept) :
              /\ \A a, b \in 1..Len(rows) : a < b => entries[rows[a]].ts >= entries[rows[b]].ts
              /\ listing' = <<[projects |-> projFlag, categories |-> catFlag, since |-> since,
                               until |-> clock, rows |-> rows]>>
    /\ UNCHANGED <<storeVars, layoutVars, filterVars, timelineVars, scrollVars, facetVars,
                   pickVars, editVars, pomodoroVars, cli, reminder, modalVars, status, pending, crashed>>

InitList ==
    initSession(storesOfLen(MaxEntries - 1, 1, {<<"x">>}, {<<"p">>, <<"q">>}, {NULL},
                            {"note", "Task"}), {FALSE}, {{}})

NextList == \E pf \in ProjectFlags : \E cf \in CategoryFlags : listCmd(pf, cf)

SpecList == InitList /\ [][NextList]_vars

\* C29: with comma-separated --projects and --categories values pulse list
\* prints the entries of the time range whose project is one of the projects
\* named and whose category is one of the categories named
C29_ListAnyOfValues ==
    listing # noListing =>
        LET l == listing[1]
        IN  Range(l.rows) =
               {i \in Ids(entries) :
                   /\ tsBetween(entries[i].ts, l.since, l.until)
                   /\ flagValues(l.projects) # <<>> =>
                         entries[i].project \in Range(flagValues(l.projects))
                   /\ flagValues(l.categories) # <<>> =>
                         <<entries[i].category>> \in Range(flagValues(l.categories))}

\* ------------------------------------------------- the same filter twice
\* the user who presses the keys of the scopes, the key of the scope in force
\* included, over a store that nothing writes to
InitAgain ==
    initSession(storesUpTo(MaxEntries, DayLen, {<<"x">>}, {NULL}, {NULL}, {"note"}), {FALSE},
                {ScopeKeys})

NextAgain ==
    \/ \E i \in 1..MaxInflight : runCmd(i)
    \/ \E i \in 1..MaxInflight : Update_blocksLoadedMsg(i)
    \/ \E i \in 1..MaxInflight : Update_facetsLoadedMsg(i)
    \/ \E k \in ScopeKeys : updateNormal_digit(k)

SpecAgain == InitAgain /\ [][NextAgain]_vars

\* two reloads of the timeline that ran with the same scope and filters
sameFilter(a, b) ==
    /\ a.kind = "blocks" /\ b.kind = "blocks"
    /\ a.phase = "done" /\ b.phase = "done" /\ ~a.err /\ ~b.err
    /\ a.sc = b.sc /\ a.since = b.since /\ a.text = b.text /\ a.proj = b.proj
    /\ a.cat = b.cat /\ a.tagSet = b.tagSet /\ a.any = b.any

LoggedText == <<"x", " ", "y">>
LoggedTags == <<"a", ",", "b">>

\* pulse log: INSERT INTO entries(category, text, project, tags); ts is the
\* schema's default, the moment of the insert
logCmd(cat, text, proj, tagList) ==
    /\ newId(entries) <= MaxEntries - 2
    /\ entries' = insertRow(entries,
                     [ts |-> clock, category |-> cat, text |-> text, project |-> proj,
                      tags |-> tagList, thread_id |-> 0, parent_id |-> 0])
    /\ UNCHANGED <<clock, schemaFK, keyboard, layoutVars, filterVars, timelineVars, scrollVars,
                   facetVars, pickVars, editVars, pomodoroVars, toolVars, modalVars, status, pending,
                   crashed>>

\* a second passes
tick ==
    /\ clock < MaxClock
    /\ clock' = clock + 1
    /\ UNCHANGED <<entries, schemaFK, keyboard, layoutVars, filterVars, timelineVars,
                   scrollVars, facetVars, pickVars, editVars, pomodoroVars, toolVars, modalVars, status,
                   pending, crashed>>

\* an empty store and a session started at any second of today
InitLog == initSessionAt({<<>>}, {FALSE}, {{}}, StartOfDay(MaxClock)..MaxClock)

NextLog ==
    \/ \E cat \in {"task", "Note"} : \E text \in {LoggedText, <<"x">>} :
          \E proj \in {<<"p">>, <<>>} : \E tagList \in {LoggedTags, <<>>} :
              logCmd(cat, text, proj, tagList)
    \/ tick
    \/ \E i \in 1..MaxInflight : runCmd(i)
    \/ \E i \in 1..MaxInflight : Update_blocksLoadedMsg(i)
    \/ \E i \in 1..MaxInflight : Update_facetsLoadedMsg(i)

SpecLog == InitLog /\ [][NextLog]_vars

\* the store holds the entry of the scenario and nothing else, logged today
loggedAlone ==
    /\ Ids(entries) = {1}
    /\ entries[1].category = "task" /\ entries[1].text = LoggedText
    /\ entries[1].project = <<"p">> /\ entries[1].tags = LoggedTags
    /\ DayOf(entries[1].ts) = DayOf(clock)

\* C31: with the entry of the scenario alone in the store, a load of today's
\* blocks with no filter returns one block, which holds that entry alone with
\* its category, text, project and tags
C31_LogThenList ==
    [][\A i \in 1..Len(pending) :
          (runCmd(i) /\ loggedAlone /\ pending[i].kind = "blocks" /\ pending[i].sc = "today"
               /\ ~pending'[i].err) =>
              /\ Len(pending'[i].res) = 1
              /\ pending'[i].res[1].entries =
                    <<[id |-> 1, when |-> entries[1].ts, cat |-> "task", project |-> <<"p">>,
                       tags |-> <<<<"a">>, <<"b">>>>, text |-> LoggedText]>>]_vars

\* ------------------------------------------------------ the command palette
\* case "ctrl+k": the palette opens with every command listed
updateNormal_ctrl_k ==
    /\ normalKey("ctrl+k")
    /\ mode' = "palette"
    /\ UNCHANGED <<storeVars, focus, showSidebar, showThread, filterVars, timelineVars,
                   scrollVars, facetVars, pickVars, editVars, pomodoroVars, toolVars, modalVars,
                   status, pending, crashed>>

\* updateCommandPalette, case tea.KeyEsc
updateCommandPalette_esc ==
    /\ modeKey("palette", "esc")
    /\ mode' = "normal"
    /\ UNCHANGED <<storeVars, focus, showSidebar, showThread, filterVars, timelineVars,
                   scrollVars, facetVars, pickVars, editVars, pomodoroVars, toolVars, modalVars,
                   status, pending, crashed>>

\* the commands of the palette that the sessions below run
PaletteCommands ==
    {"pomodoro_start", "pomodoro_break", "pomodoro_stop", "toggle_sidebar", "toggle_focus",
     "rich_text_editor", "calendar", "quit"}

\* updateCommandPalette, case tea.KeyEnter with the cursor on command id: the
\* palette closes and the Action of the command runs
updateCommandPalette_enter(id) ==
    /\ modeKey("palette", "enter")
    /\ id \in PaletteCommands
    /\ mode' = IF id = "rich_text_editor" THEN "richTextEditor"
               ELSE IF id = "calendar" THEN "calendar" ELSE "normal"
    /\ IF id \in {"pomodoro_start", "pomodoro_break"} /\ ~pomodoroActive
       THEN /\ pomodoroTicks < MaxTicks
            /\ pomodoroActive' = TRUE
            /\ pomodoroTimeLeft' =
                   IF id = "pomodoro_start" THEN workSessionTime ELSE breakSessionTime
            /\ pomodoroSession' = IF id = "pomodoro_start" THEN 1 ELSE 0
            /\ status' = IF id = "pomodoro_start" THEN "Pomodoro session started"
                         ELSE "Break started"
            /\ pomodoroTicks' = pomodoroTicks + 1
       ELSE IF id = "pomodoro_stop" /\ pomodoroActive
       THEN /\ pomodoroActive' = FALSE
            /\ status' = "Pomodoro session stopped"
            /\ UNCHANGED <<pomodoroTimeLeft, pomodoroSession, pomodoroTicks>>
       ELSE UNCHANGED <<pomodoroActive, pomodoroTimeLeft, pomodoroSession, pomodoroTicks,
                        status>>
    /\ showSidebar' = IF id = "toggle_sidebar" THEN ~showSidebar ELSE showSidebar
    /\ focusMode' = IF id = "toggle_focus" THEN ~focusMode ELSE focusMode
    /\ calendarPreviewMode' = IF id = "calendar" THEN FALSE ELSE calendarPreviewMode
    /\ quitting' = (id = "quit")
    /\ UNCHANGED <<storeVars, focus, showThread, filterVars, timelineVars, scrollVars,
                   facetVars, pickVars, editVars, pomodoroWorkSessions, pomodoroTotalTime,
                   pomodoroSessionsCount, toolVars, pending, crashed>>

\* the user who starts a countdown from the palette, with Start Pomodoro or
\* with Start Break, and lets it run
PaletteKeyboard == {"ctrl+k", "enter", "esc"}

InitPalette == initSession({<<>>}, {FALSE}, {PaletteKeyboard})

NextPalette ==
    \/ updateNormal_ctrl_k
    \/ updateCommandPalette_esc
    \/ \E id \in {"pomodoro_start", "pomodoro_break"} : updateCommandPalette_enter(id)
    \/ Update_pomodoroTickMsg

SpecPalette == InitPalette /\ [][NextPalette]_vars

\* C32: when the countdown that Start Pomodoro began reaches zero a work
\* session is counted and a break begins; when the countdown that Start Break
\* began reaches zero a work countdown begins and no work session is counted
C32_PaletteCountdownKinds ==
    [][(Update_pomodoroTickMsg /\ pomodoroActive /\ pomodoroTimeLeft - 1 <= 0) =>
          /\ status = "Pomodoro session started" =>
                /\ pomodoroWorkSessions' = pomodoroWorkSessions + 1
                /\ pomodoroTimeLeft' \in {breakSessionTime, LongBreakTime}
          /\ status = "Break started" =>
                /\ pomodoroWorkSessions' = pomodoroWorkSessions
                /\ pomodoroTimeLeft' = workSessionTime]_vars

\* ------------------------------------------------ the keys under the cursor
\* the user who moves down the timeline with the cursor key and the page key
\* and replies to or edits the entry under the cursor
CursorKeyboard == {"down", "pgdown", "r", "e", "esc"}

InitFault ==
    initSession(storesOfLen(MaxEntries, DayLen, {<<"x">>}, {NULL}, {NULL}, {"note"}), {FALSE},
                {CursorKeyboard})

NextFault ==
    \/ \E i \in 1..MaxInflight : runCmd(i)
    \/ \E i \in 1..MaxInflight : Update_blocksLoadedMsg(i)
    \/ \E i \in 1..MaxInflight : Update_facetsLoadedMsg(i)
    \/ updateNormal_down
    \/ updateNormal_pgdown
    \/ updateNormal_r
    \/ updateNormal_e
    \/ updateEditor_esc

SpecFault == InitFault /\ [][NextFault]_vars

\* C33: no sequence of keys and reload results makes a handler index
\* blocks[cursorBlock] or its entries[cursorEntry] out of range: the session
\* never ends with a runtime fault
C33_NoRuntimeFault == ~crashed

\* ------------------------------------------------------ the tick chains
\* C34: at most one pomodoroTickMsg timer is pending at any time, however the
\* countdown is started, stopped and started again
C34_OneTickPending == pomodoroTicks <= 1

\* ------------------------------------------------------ the focused pane
\* C35: in every reachable state the focused pane is shown: the focus is on the
\* sidebar only while the sidebar is shown and on the thread panel only while
\* the thread panel is shown
C35_FocusedPaneShown ==
    /\ focus = "sidebar" => showSidebar
    /\ focus = "thread" => showThread

\* ------------------------------------------- the facets after a mutation
\* C36: every handler of the session that changes the entries table issues a
\* facet reload with it, so the counts of the sidebar follow the store
C36_MutationReloadsFacets ==
    [][entries' # entries =>
          \E k \in (Len(pending) + 1)..Len(pending') :
              pending'[k].kind = "facets" /\ pending'[k].phase = "run"]_vars

\* ------------------------------------------------ one tag and its entries
\* C37: under the filter of one tag t every thread listed holds an entry one of
\* whose comma-separated, trimmed tags equals t, the entries the facet loader
\* counts for t: an entry none of whose tags equals t does not match
C37_TagFilterMatchesEqualTag ==
    (tagsLoaded /\ Cardinality(filterTags) = 1) =>
        \A k \in 1..Len(blocks) :
            \E e \in Range(blocks[k].entries) : filterTags \subseteq Range(e.tags)

\* ------------------------------------------------------ the loop of NextAt
\* configurations whose workday list is empty or names no weekday, with the
\* others
LoopConfigs ==
    Configs \cup
    {[hour |-> h, workdays |-> w, holidays |-> hs] :
        h \in {0, DefaultHour}, w \in {{}, {"Wee"}}, hs \in SUBSET {MaxNowDay}}

\* NextAt up to its loop: the candidate is today at the configured hour, or a
\* day later when now is not before it
NextAt_candidate ==
    /\ reminder.cand = <<>>
    /\ \E c \in Date(reminder.zone, wallDay(reminder.zone, reminder.now), reminder.cfg.hour) :
          reminder' = [reminder EXCEPT
                          !.cand = <<IF ~(reminder.now < c) THEN c + HoursPerDay ELSE c>>]
    /\ UNCHANGED <<storeVars, layoutVars, filterVars, timelineVars, scrollVars, facetVars,
                   pickVars, editVars, pomodoroVars, cli, listing, modalVars, status, pending, crashed>>

\* an instant that is after the change of the zone's clocks and after every
\* holiday: from there on the loop tells two candidates a week apart by nothing
settled(cfg, t) ==
    /\ t > ShiftAt + 1
    /\ \A h \in cfg.holidays : t > (h + 1) * HoursPerDay + 1

\* one turn of the loop of NextAt: the candidate is returned when it is on a
\* workday that is no holiday, and a day is added to it otherwise. A candidate
\* more than Horizon hours and a week after now, with the one a week earlier
\* settled, is followed as the one a week earlier, the same weekday: the loop
\* has turned for more than a week and all the holidays by then
NextAt_loop ==
    /\ reminder.cand # <<>> /\ reminder.next = <<>>
    /\ LET cand == reminder.cand[1]
           later == cand + HoursPerDay
       IN  IF isWorkday(reminder.cfg, reminder.zone, cand)
              /\ ~isHoliday(reminder.cfg, reminder.zone, cand)
           THEN reminder' = [reminder EXCEPT !.next = <<cand>>]
           ELSE reminder' = [reminder EXCEPT !.cand =
                                <<IF /\ later - 7 * HoursPerDay > reminder.now + Horizon
                                     /\ settled(reminder.cfg, later - 7 * HoursPerDay)
                                  THEN later - 7 * HoursPerDay ELSE later>>]
    /\ UNCHANGED <<storeVars, layoutVars, filterVars, timelineVars, scrollVars, facetVars,
                   pickVars, editVars, pomodoroVars, cli, listing, modalVars, status, pending, crashed>>

InitLoop ==
    initSchedule([now : 0..((MaxNowDay + 1) * HoursPerDay - 1), cfg : LoopConfigs,
                  zone : Zones, cand : {<<>>}, next : {<<>>}])

NextLoop == NextAt_candidate \/ NextAt_loop

\* the call runs on: a turn of the loop that can be taken is taken
SpecLoop == InitLoop /\ [][NextLoop]_vars /\ WF_vars(NextLoop)

\* C38: NextAt returns a time for every configuration and every now, an empty
\* workday list and one that names no weekday included
C38_NextAtReturns == <>(reminder.next # <<>>)

\* ------------------------------------------------------------- the modes
\* updateNormal, the keys that open a view and change no other field of the
\* model. showDashboard is false whenever the mode is Normal (ctrl+w sets it with
\* the mode, and both ways out of the dashboard clear it), so ctrl+w opens
ViewOf(k) ==
    CASE k = "?" -> "help"
      [] k = "F" -> "advancedSearch"
      [] k = "T" -> "templates"
      [] k = "C" -> "calendar"
      [] k = "E" -> "export"
      [] k = "R" -> "timeReports"
      [] k = "A" -> "tagAnalytics"
      [] k = "n" -> "create"
      [] k = "ctrl+w" -> "dashboard"
      [] k = "ctrl+i" -> "stats"
ViewKeys == {"?", "F", "T", "C", "E", "R", "A", "n", "ctrl+w", "ctrl+i"}

updateNormal_view(k) ==
    /\ k \in ViewKeys
    /\ normalKey(k)
    /\ mode' = ViewOf(k)
    /\ calendarPreviewMode' = IF k = "C" THEN FALSE ELSE calendarPreviewMode
    /\ UNCHANGED <<storeVars, focus, showSidebar, showThread, filterVars, timelineVars,
                   scrollVars, facetVars, pickVars, editVars, pomodoroVars, toolVars,
                   focusMode, quitting, status, pending, crashed>>

\* Update and the handlers of the views: the keys that close the view of mode
\* md, Esc in each of them and the key that opened Help, Stats and the
\* Dashboard
Views ==
    {"help", "stats", "dashboard", "create", "templates", "export", "advancedSearch",
     "timeReports", "tagAnalytics", "richTextEditor"}
closeKeys(md) ==
    {"esc"} \cup (IF md = "help" THEN {"?"} ELSE IF md = "stats" THEN {"ctrl+i"}
                  ELSE IF md = "dashboard" THEN {"ctrl+w"} ELSE {})

updateView_close(md, k) ==
    /\ md \in Views /\ k \in closeKeys(md)
    /\ modeKey(md, k)
    /\ mode' = "normal"
    /\ UNCHANGED <<storeVars, focus, showSidebar, showThread, filterVars, timelineVars,
                   scrollVars, facetVars, pickVars, editVars, pomodoroVars, toolVars,
                   modalVars, status, pending, crashed>>

\* a calendar that Esc does not leave while a day is previewed
updateCalendar_escKeepsPreview ==
    /\ modeKey("calendar", "esc")
    /\ IF calendarPreviewMode
       THEN UNCHANGED <<mode, calendarPreviewMode>>
       ELSE mode' = "normal" /\ UNCHANGED calendarPreviewMode
    /\ UNCHANGED <<storeVars, focus, showSidebar, showThread, filterVars, timelineVars,
                   scrollVars, facetVars, pickVars, editVars, pomodoroVars, toolVars,
                   focusMode, quitting, status, pending, crashed>>

\* updateCalendar, case "esc": the preview of a day is closed, or the calendar
updateCalendar_esc ==
    /\ modeKey("calendar", "esc")
    /\ IF calendarPreviewMode
       THEN calendarPreviewMode' = FALSE /\ mode' = mode
       ELSE mode' = "normal" /\ UNCHANGED calendarPreviewMode
    /\ UNCHANGED <<storeVars, focus, showSidebar, showThread, filterVars, timelineVars,
                   scrollVars, facetVars, pickVars, editVars, pomodoroVars, toolVars,
                   focusMode, quitting, status, pending, crashed>>

\* updateCalendar, case "enter": the entries of the selected day are previewed
updateCalendar_enter ==
    /\ modeKey("calendar", "enter")
    /\ calendarPreviewMode' = TRUE
    /\ UNCHANGED <<storeVars, layoutVars, filterVars, timelineVars, scrollVars, facetVars,
                   pickVars, editVars, pomodoroVars, toolVars, focusMode, quitting, status,
                   pending, crashed>>

\* updateNormal, case "ctrl+f"
updateNormal_ctrl_f ==
    /\ normalKey("ctrl+f")
    /\ focusMode' = ~focusMode
    /\ IF focusMode'
       THEN mode' = "focus" /\ showSidebar' = FALSE /\ showThread' = FALSE
       ELSE mode' = "normal" /\ UNCHANGED <<showSidebar, showThread>>
    /\ UNCHANGED <<storeVars, focus, filterVars, timelineVars, scrollVars, facetVars,
                   pickVars, editVars, pomodoroVars, toolVars, calendarPreviewMode, quitting,
                   status, pending, crashed>>

\* updateFocus, case "esc" and case "ctrl+f"
updateFocus(k) ==
    /\ k \in {"esc", "ctrl+f"}
    /\ modeKey("focus", k)
    /\ focusMode' = FALSE
    /\ mode' = "normal"
    /\ UNCHANGED <<storeVars, focus, showSidebar, showThread, filterVars, timelineVars,
                   scrollVars, facetVars, pickVars, editVars, pomodoroVars, toolVars,
                   calendarPreviewMode, quitting, status, pending, crashed>>

\* Update, case tea.KeyMsg: q and ctrl+c quit from Normal and from Help
Update_quit(k) ==
    /\ k \in {"q", "ctrl+c"}
    /\ ~crashed /\ ~quitting /\ k \in keyboard
    /\ mode \in {"normal", "help"}
    /\ quitting' = TRUE
    /\ UNCHANGED <<storeVars, layoutVars, filterVars, timelineVars, scrollVars, facetVars,
                   pickVars, editVars, pomodoroVars, toolVars, focusMode, calendarPreviewMode,
                   status, pending, crashed>>

\* the user who opens the views and the palette, closes them and quits, and the
\* user who opens the forms and the pickers, closes them and quits
ModeKeyboard == ViewKeys \cup {"ctrl+k", "ctrl+f", "enter", "esc", "q", "ctrl+c"}
EntryKeyboard == {"/", "s", "p", "J", "r", "e", "esc", "q", "ctrl+c"}

InitModes == initSession(EditStores(1, {NULL}), {FALSE}, {ModeKeyboard, EntryKeyboard})

\* Esc, in the handler of each mode
EscNext ==
    \/ updateSearch_esc
    \/ updateSince_esc
    \/ updatePicker_esc
    \/ updateProjectSummary_esc
    \/ updateEditor_esc
    \/ updateCommandPalette_esc
    \/ \E md \in Views : updateView_close(md, "esc")
    \/ updateCalendar_esc
    \/ updateFocus("esc")

NextModes ==
    \/ \E i \in 1..MaxInflight : runCmd(i)
    \/ \E i \in 1..MaxInflight : Update_blocksLoadedMsg(i)
    \/ \E i \in 1..MaxInflight : Update_facetsLoadedMsg(i)
    \/ \E i \in 1..MaxInflight : Update_projectSummaryLoadedMsg(i)
    \/ updateNormal_slash
    \/ updateNormal_s
    \/ updateNormal_picker("p")
    \/ updateNormal_J
    \/ updateNormal_r
    \/ updateNormal_e
    \/ updateNormal_ctrl_k
    \/ updateNormal_ctrl_f
    \/ \E k \in ViewKeys : updateNormal_view(k)
    \/ \E md \in Views, k \in {"?", "ctrl+i", "ctrl+w"} : updateView_close(md, k)
    \/ updateCalendar_enter
    \/ \E id \in {"rich_text_editor", "calendar", "toggle_focus", "quit"} :
          updateCommandPalette_enter(id)
    \/ updateFocus("ctrl+f")
    \/ \E k \in {"q", "ctrl+c"} : Update_quit(k)
    \/ EscNext

SpecModes == InitModes /\ [][NextModes]_vars

\* Esc pressed here reaches Normal
oneEsc == ~ENABLED (EscNext /\ mode' # "normal")

\* a session that still reads keys, in a mode other than Normal, fewer commands
\* in flight than are followed
inView == mode # "normal" /\ ~crashed /\ ~quitting /\ canIssue(1)

\* every mode other than Normal handles Esc, and an Esc that does not reach
\* Normal leaves the session where the next one does
escTwice ==
    inView => /\ ENABLED EscNext
              /\ ~ENABLED (EscNext /\ mode' # "normal" /\ ~oneEsc')

\* C39: from every mode other than Normal, Normal is reached by pressing Esc at
\* most twice, whatever came before, and the session quits only from Normal or
\* from Help
C39_EscTwiceQuitFromNormalOrHelp ==
    /\ []escTwice
    /\ [][(quitting' /\ ~quitting) => mode \in {"normal", "help"}]_vars

\* C39, amended: as above, but the session also quits from the palette, by its
\* Quit command
C39_EscTwiceQuitAlsoFromPalette ==
    /\ []escTwice
    /\ [][(quitting' /\ ~quitting) => mode \in {"normal", "help", "palette"}]_vars

\* two presses of Esc are needed: the calendar previews a day
C39_Witness == mode = "calendar" /\ calendarPreviewMode /\ ~oneEsc

\* C40: the focusMode flag is set exactly when the mode is Focus, whether focus
\* mode was toggled by ctrl+f, by Esc in Focus mode or by the Focus Mode command
\* of the palette
C40_FocusFlagIffFocusMode == focusMode <=> mode = "focus"

====
